---- MODULE Spec2Model ----
(***************************************************************************)
(* Ingestion and forecast pipeline of project-snow: the sequential and the *)
(* bounded-concurrency scrape orchestrators, the multi-model weather       *)
(* client, the snapshot read-through cache of the forecast and             *)
(* snowfall-chart endpoints, and scrapeResortConditions.                   *)
(*                                                                         *)
(* Each subsystem has its own specification over its own variables; the    *)
(* variables of the other subsystems stay at their initial values.         *)
(***************************************************************************)
EXTENDS Integers, Sequences, FiniteSets, TLC

VARIABLES
    \* ---- sequential orchestrator (runFullScrape) ----
    catalog,          \* resortsToScrape: sequence of skiresortinfoId values
    seqPc,            \* position of runFullScrape
    seqI,             \* loop index (1-based) of the resort being processed
    results,          \* {total, success, failed, skipped, errors}
    rstate,           \* per resort: Pending / Scraping / Stored / Failed / Skipped
    outcome,          \* per resort: what the scraper and the writes did
    conditionsTable,  \* resort_conditions rows (append-only)
    infoTable,        \* resort_info rows, keyed by resortId
    now,              \* wall clock, in seconds
    wakeAt,           \* when the pending setTimeout of the run fires
    scrapeEnded,      \* <<t>> when the last scraper invocation ended, else <<>>
    seqGaps,          \* gaps observed: (scraper start) - (previous scraper end)
    \* ---- bounded-concurrency orchestrator (GET /api/cron/scrape) ----
    allResorts,       \* the selected resorts: sequence of skiresortinfoId values
    cronPc,           \* "idle" before the handler maps the tasks, then "running"
    taskState,        \* per task: queued/sleeping/ready/scraping/storing/done/rejected
    taskWake,         \* per task: when its sleep(DELAY_MS) ends
    limitQueue,       \* p-limit: the tasks waiting for a slot, in order
    activeCount,      \* p-limit: the tasks started and not yet settled
    successCount,
    failCount,
    cronResponse,     \* <<>> until the handler answers, then <<response>>
    cronNow,          \* wall clock, in seconds
    scrapeStarts,     \* the times at which a request to the upstream host started
    \* ---- multi-model weather client (fetchAllModels) ----
    famClient,        \* which caller of Promise.all runs: daily / hourly / season
    upstream,         \* per endpoint: what its HTTP request will yield
    famPc,            \* idle / awaiting / resolved / rejected
    subState,         \* per endpoint: idle / inflight / settled
    subResult,        \* per endpoint: what its fetch function returned or threw
    famResult,        \* <<>> until fetchAllModels resolves, then <<MultiModelResponse>>
    \* ---- snapshot cache read paths (forecast and snowfall-chart GET) ----
    forecastSnapshots,\* the forecast_snapshots table; a row's id is its index
    hourlyForecasts,  \* ids of the snapshots whose hourly rows are stored
    dailyForecasts,   \* ids of the snapshots whose daily rows are stored
    req,              \* per request: the endpoint it calls, its position and locals
    upstreamFetches,  \* upstream calls made so far; the n-th one answers payload n
    cacheNow,         \* wall clock, in hours
    \* ---- scrapeResortConditions ----
    scrVariant,       \* which of the two copies of the scraper runs
    scrPc,            \* idle / primary / lifts / done
    html,             \* <<>> or <<the primary page as received>>
    liftsHtml,        \* <<>> or <<the lift-breakdown page as received>>
    liftsFetch,       \* what the fetch of the lift-breakdown page did
    parsed,           \* <<>> or <<{conditions, info} parsed off the primary page>>
    scrResult,        \* how the promise of scrapeResortConditions settled
    \* ---- several runFullScrape runs against the same database ----
    storeRuns,        \* per run: its position, its `today` and its loop index
    conditionsRows,   \* the resort_conditions table, in insertion order
    infoRows,         \* the resort_info table, in insertion order
    storeDate,        \* the calendar date, in days
    \* ---- aggregateHourlyToDaily applied to one hourly series ----
    aggInput,         \* the parallel arrays times[] / values[], as entries
    aggPc,            \* input / done
    aggResult,        \* <<>> or <<the DailySnowfall[] returned>>
    \* ---- season-snowfall GET ----
    seaPc,            \* start / fetch / done
    today,            \* new Date() of the handler, as a day number
    season,           \* <<>> or <<the season year and the three date ranges>>
    seasonTotals,     \* <<>> or <<the totals off the cumulative series>>
    seasonResponse,   \* <<>> or <<the response: status and percentOfLastSeason>>
    \* ---- snow-depth sync (runFullSync) ----
    syncRuns,         \* per run: its position, loop index, depth and counters
    snowDepthReadings,\* the snow_depth_readings table, in insertion order
    \* ---- scraper service: its triggers ----
    triggers,         \* per trigger: its kind, its own p-limit and its tasks
    \* ---- favorite toggle (POST) ----
    favorites,        \* the favorites rows of one user and one resort (row ids)
    favNextId,        \* the id the next inserted row gets
    favReq            \* per request: its position, what it read, its response

seqVars == <<catalog, seqPc, seqI, results, rstate, outcome, conditionsTable,
             infoTable, now, wakeAt, scrapeEnded, seqGaps>>

cronVars == <<allResorts, cronPc, taskState, taskWake, limitQueue, activeCount,
              successCount, failCount, cronResponse, cronNow, scrapeStarts>>

famVars == <<famClient, upstream, famPc, subState, subResult, famResult>>

cacheVars == <<forecastSnapshots, hourlyForecasts, dailyForecasts, req,
               upstreamFetches, cacheNow>>

scrVars == <<scrVariant, scrPc, html, liftsHtml, liftsFetch, parsed, scrResult>>

storeVars == <<storeRuns, conditionsRows, infoRows, storeDate>>

aggVars == <<aggInput, aggPc, aggResult>>

seaVars == <<seaPc, today, season, seasonTotals, seasonResponse>>

syncVars == <<syncRuns, snowDepthReadings>>

svcVars == <<triggers>>

favVars == <<favorites, favNextId, favReq>>

vars == <<seqVars, cronVars, famVars, cacheVars, scrVars, storeVars, aggVars,
          seaVars, syncVars, svcVars, favVars>>

----------------------------------------------------------------------------
(* Bounds of the model *)
MaxResorts == 3
MaxTime == 2
MaxSamples == 1
MaxRequests == 2
MaxHours == 1
MaxRuns == 2
MaxDays == 1
MaxAggSamples == 4
MaxYears == 2
MaxTotal == 3
MaxTriggers == 2
MaxToggles == 3

----------------------------------------------------------------------------
(* Sequential orchestrator: runFullScrape                                   *)

\* values of resorts.skiresortinfoId that pass the isNotNull filter:
\* the empty string (falsy) and a proper identifier
IdValues == {"", "id"}

SeqN(n) == UNION {[1..k -> IdValues] : k \in 0..n}

\* setTimeout(resolve, 1000) of the sequential run, in milliseconds
SeqDelayMs == 1000

\* the clock of the orchestrators counts seconds
SeqDelay == SeqDelayMs \div 1000

NoDataMsg == "Failed to fetch data"
ThrownMsg == "error.message"

\* `${resort.name}: ${msg}`: the resort's name, then the message
ErrorLine(name, msg) == <<name, msg>>

ResortName(i) == i

\* the bounded-concurrency handler has not been called
CronIdle ==
    /\ allResorts = <<>>
    /\ cronPc = "idle"
    /\ taskState = <<>>
    /\ taskWake = <<>>
    /\ limitQueue = <<>>
    /\ activeCount = 0
    /\ successCount = 0
    /\ failCount = 0
    /\ cronResponse = <<>>
    /\ cronNow = 0
    /\ scrapeStarts = <<>>

\* fetchAllModels has not been called
FamIdle ==
    /\ famClient = "none"
    /\ upstream = <<>>
    /\ famPc = "idle"
    /\ subState = <<>>
    /\ subResult = <<>>
    /\ famResult = <<>>

\* no request has reached the read paths
CacheIdle ==
    /\ forecastSnapshots = <<>>
    /\ hourlyForecasts = {}
    /\ dailyForecasts = {}
    /\ req = <<>>
    /\ upstreamFetches = 0
    /\ cacheNow = 0

\* scrapeResortConditions has not been called
ScrapeIdle ==
    /\ scrVariant = "none"
    /\ scrPc = "idle"
    /\ html = <<>>
    /\ liftsHtml = <<>>
    /\ liftsFetch = "none"
    /\ parsed = <<>>
    /\ scrResult = [settled |-> "pending", value |-> <<>>]

\* no run against the shared database has started
StoreIdle ==
    /\ storeRuns = <<>>
    /\ conditionsRows = <<>>
    /\ infoRows = <<>>
    /\ storeDate = 0

\* aggregateHourlyToDaily has not been given a series
AggIdle ==
    /\ aggInput = <<>>
    /\ aggPc = "idle"
    /\ aggResult = <<>>

\* no season-snowfall request has arrived
SeasonIdle ==
    /\ seaPc = "idle"
    /\ today = 0
    /\ season = <<>>
    /\ seasonTotals = <<>>
    /\ seasonResponse = <<>>

\* no snow-depth sync has started
SyncIdle ==
    /\ syncRuns = <<>>
    /\ snowDepthReadings = <<>>

\* the scraper service has received no trigger
ServiceIdle == triggers = <<>>

\* no favorite toggle has arrived
FavIdle ==
    /\ favorites = {}
    /\ favNextId = 0
    /\ favReq = <<>>

SeqInit ==
    /\ CronIdle
    /\ FamIdle
    /\ CacheIdle
    /\ ScrapeIdle
    /\ StoreIdle
    /\ AggIdle
    /\ SeasonIdle
    /\ SyncIdle
    /\ ServiceIdle
    /\ FavIdle
    /\ catalog \in SeqN(MaxResorts)
    /\ seqPc = "loop"
    /\ seqI = 1
    /\ results = [total |-> Len(catalog), success |-> 0, failed |-> 0,
                  skipped |-> 0, errors |-> <<>>]
    /\ rstate = [r \in 1..Len(catalog) |-> "Pending"]
    /\ outcome = [r \in 1..Len(catalog) |-> "none"]
    /\ conditionsTable = <<>>
    /\ infoTable = [r \in {} |-> 0]
    /\ now = 0
    /\ wakeAt = 0
    /\ scrapeEnded = <<>>
    /\ seqGaps = {}

\* a step of the sequential run leaves the other subsystems alone
SeqFrame == UNCHANGED <<cronVars, famVars, cacheVars, scrVars, storeVars, aggVars, seaVars,
        syncVars, svcVars, favVars>>

\* (mutant) the loop comes back to the same resort
SameIndex(i) == i

\* i++ of the for statement, also reached by continue
NextIndex(i) == i + 1

\* (mutant) a failed resort ends the run
SeqAbortOnFailure == "done"

\* where the loop goes after a resort failed: the next iteration
SeqAfterFailure == "loop"

\* (mutant) the catch block records the message but does not count the resort
SeqFailUncounted(msg, why) ==
    /\ results' = [results EXCEPT
                       !.errors = Append(@, ErrorLine(ResortName(seqI), msg))]
    /\ rstate' = [rstate EXCEPT ![seqI] = "Failed"]
    /\ outcome' = [outcome EXCEPT ![seqI] = why]
    /\ seqI' = NextIndex(seqI)
    /\ seqPc' = SeqAfterFailure

\* the catch block (and the !scraped branch): count, record, continue
SeqFail(msg, why) ==
    /\ results' = [results EXCEPT !.failed = @ + 1,
                       !.errors = Append(@, ErrorLine(ResortName(seqI), msg))]
    /\ rstate' = [rstate EXCEPT ![seqI] = "Failed"]
    /\ outcome' = [outcome EXCEPT ![seqI] = why]
    /\ seqI' = NextIndex(seqI)
    /\ seqPc' = SeqAfterFailure

\* if (!resort.skiresortinfoId) { results.skipped++; continue; }
SeqSkip ==
    /\ seqPc = "loop"
    /\ seqI <= Len(catalog)
    /\ catalog[seqI] = ""
    /\ results' = [results EXCEPT !.skipped = @ + 1]
    /\ rstate' = [rstate EXCEPT ![seqI] = "Skipped"]
    /\ seqI' = NextIndex(seqI)
    /\ UNCHANGED <<catalog, seqPc, outcome, conditionsTable, infoTable, now,
                   wakeAt, scrapeEnded, seqGaps>>
    /\ SeqFrame

\* const scraped = await scrapeResortConditions(resort.skiresortinfoId): the call
SeqStartScrape ==
    /\ seqPc = "loop"
    /\ seqI <= Len(catalog)
    /\ catalog[seqI] # ""
    /\ seqPc' = "scraping"
    /\ rstate' = [rstate EXCEPT ![seqI] = "Scraping"]
    /\ seqGaps' = IF scrapeEnded = <<>> THEN seqGaps
                  ELSE seqGaps \cup {now - scrapeEnded[1]}
    /\ UNCHANGED <<catalog, seqI, results, outcome, conditionsTable, infoTable,
                   now, wakeAt, scrapeEnded>>
    /\ SeqFrame

\* the scraper returned null: if (!scraped) { failed++; errors.push; continue; }
SeqScrapeNull ==
    /\ seqPc = "scraping"
    /\ SeqFail(NoDataMsg, "null")
    /\ scrapeEnded' = <<now>>
    /\ UNCHANGED <<catalog, conditionsTable, infoTable, now, wakeAt, seqGaps>>
    /\ SeqFrame

\* the scraper call threw: the catch block
SeqScrapeThrows ==
    /\ seqPc = "scraping"
    /\ SeqFail(ThrownMsg, "scrapeThrew")
    /\ scrapeEnded' = <<now>>
    /\ UNCHANGED <<catalog, conditionsTable, infoTable, now, wakeAt, seqGaps>>
    /\ SeqFrame

\* the scraper returned {conditions, info}
SeqScrapeData ==
    /\ seqPc = "scraping"
    /\ seqPc' = "insertConditions"
    /\ scrapeEnded' = <<now>>
    /\ UNCHANGED <<catalog, seqI, results, rstate, outcome, conditionsTable,
                   infoTable, now, wakeAt, seqGaps>>
    /\ SeqFrame

\* await db.insert(resortConditions).values({...}): a new row each time
SeqInsertConditions ==
    /\ seqPc = "insertConditions"
    /\ conditionsTable' = Append(conditionsTable, [resortId |-> seqI])
    /\ seqPc' = "upsertInfo"
    /\ UNCHANGED <<catalog, seqI, results, rstate, outcome, infoTable, now,
                   wakeAt, scrapeEnded, seqGaps>>
    /\ SeqFrame

\* the conditions insert threw: the catch block
SeqInsertConditionsThrows ==
    /\ seqPc = "insertConditions"
    /\ SeqFail(ThrownMsg, "insertThrew")
    /\ UNCHANGED <<catalog, conditionsTable, infoTable, now, wakeAt,
                   scrapeEnded, seqGaps>>
    /\ SeqFrame

\* insert(resortInfo).onConflictDoUpdate({target: resortId}): one row per resort,
\* whose version stands for updatedAt
UpsertInfo(table, r) ==
    IF r \in DOMAIN table
      THEN [table EXCEPT ![r] = @ + 1]
      ELSE [x \in DOMAIN table \cup {r} |-> IF x = r THEN 1 ELSE table[x]]

\* await db.insert(resortInfo)...; results.success++; then the setTimeout is set
SeqUpsertInfo ==
    /\ seqPc = "upsertInfo"
    /\ infoTable' = UpsertInfo(infoTable, seqI)
    /\ results' = [results EXCEPT !.success = @ + 1]
    /\ rstate' = [rstate EXCEPT ![seqI] = "Stored"]
    /\ outcome' = [outcome EXCEPT ![seqI] = "stored"]
    /\ wakeAt' = now + SeqDelay
    /\ seqPc' = "sleep"
    /\ UNCHANGED <<catalog, seqI, conditionsTable, now, scrapeEnded, seqGaps>>
    /\ SeqFrame

\* the info upsert threw: the catch block
SeqUpsertInfoThrows ==
    /\ seqPc = "upsertInfo"
    /\ SeqFail(ThrownMsg, "upsertThrew")
    /\ UNCHANGED <<catalog, conditionsTable, infoTable, now, wakeAt,
                   scrapeEnded, seqGaps>>
    /\ SeqFrame

\* the rate-limiting timer fired: next iteration
SeqWake ==
    /\ seqPc = "sleep"
    /\ now >= wakeAt
    /\ seqI' = NextIndex(seqI)
    /\ seqPc' = "loop"
    /\ UNCHANGED <<catalog, results, rstate, outcome, conditionsTable, infoTable,
                   now, wakeAt, scrapeEnded, seqGaps>>
    /\ SeqFrame

\* the loop is over: return results
SeqReturn ==
    /\ seqPc = "loop"
    /\ seqI > Len(catalog)
    /\ seqPc' = "done"
    /\ UNCHANGED <<catalog, seqI, results, rstate, outcome, conditionsTable,
                   infoTable, now, wakeAt, scrapeEnded, seqGaps>>
    /\ SeqFrame

\* time passes while the run awaits the network, the store or the timer
SeqTick ==
    /\ seqPc \in {"scraping", "insertConditions", "upsertInfo", "sleep"}
    /\ now < MaxTime \/ (seqPc = "sleep" /\ now < wakeAt)
    /\ now' = now + 1
    /\ UNCHANGED <<catalog, seqPc, seqI, results, rstate, outcome,
                   conditionsTable, infoTable, wakeAt, scrapeEnded, seqGaps>>
    /\ SeqFrame

SeqNext ==
    \/ SeqSkip
    \/ SeqStartScrape
    \/ SeqScrapeNull
    \/ SeqScrapeThrows
    \/ SeqScrapeData
    \/ SeqInsertConditions
    \/ SeqInsertConditionsThrows
    \/ SeqUpsertInfo
    \/ SeqUpsertInfoThrows
    \/ SeqWake
    \/ SeqReturn
    \/ SeqTick

SpecSeq == SeqInit /\ [][SeqNext]_vars

\* the run under the proviso that every scraper call and every store write
\* eventually returns or throws and that the timer fires: no step of the run
\* stays enabled for ever without being taken
SpecSeqFair == SpecSeq /\ WF_vars(SeqNext)

----------------------------------------------------------------------------
(* Properties of the sequential orchestrator                                *)

FailureKinds == {"null", "scrapeThrew", "insertThrew", "upsertThrew"}
FinalStates == {"Stored", "Failed", "Skipped"}
Resorts == 1..Len(catalog)
InState(s) == {r \in Resorts : rstate[r] = s}
ErrorsNaming(r) == {k \in 1..Len(results.errors) : results.errors[k][1] = ResortName(r)}

\* C1: in a sequential run a resort whose scrape returned null, or whose scrape
\* or either store write threw, is counted failed with a message recorded, and
\* the run still processes every later resort: when it returns, every resort
\* of the catalog has reached an outcome.
SeqFailureIsolated ==
    /\ \A r \in Resorts :
          outcome[r] \in FailureKinds =>
              /\ rstate[r] = "Failed"
              /\ ErrorsNaming(r) # {}
    /\ results.failed = Cardinality({r \in Resorts : outcome[r] \in FailureKinds})
    /\ seqPc = "done" => \A r \in Resorts : rstate[r] \in FinalStates

\* C1 witness: the run returned, a store write of one resort threw, the scraper
\* returned null for another, and a later resort was stored
SeqFailureIsolatedWitness ==
    /\ seqPc = "done"
    /\ \E a, b, c \in Resorts :
          /\ a < c /\ b < c
          /\ outcome[a] \in {"insertThrew", "upsertThrew"}
          /\ outcome[b] = "null"
          /\ rstate[c] = "Stored"

SeqDoneSummary ==
    seqPc = "done" =>
        /\ results.success + results.failed + results.skipped = results.total
        /\ results.total = Len(catalog)
        /\ \A r \in Resorts : rstate[r] \in FinalStates
        /\ results.success = Cardinality(InState("Stored"))
        /\ results.failed = Cardinality(InState("Failed"))
        /\ results.skipped = Cardinality(InState("Skipped"))
        /\ Len(results.errors) = results.failed
        /\ \A r \in Resorts :
              Cardinality(ErrorsNaming(r)) = IF rstate[r] = "Failed" THEN 1 ELSE 0

SeqResortStep ==
    \A r \in Resorts :
        \/ rstate'[r] = rstate[r]
        \/ rstate[r] = "Pending" /\ rstate'[r] \in {"Scraping", "Skipped"}
        \/ rstate[r] = "Scraping" /\ rstate'[r] \in {"Stored", "Failed"}

\* C5: when a sequential run finishes every resort has ended in exactly one of
\* stored, failed, skipped, so success + failed + skipped = total, and the error
\* list holds exactly one message, naming the resort, per failed resort; a
\* resort only ever moves Pending -> Scraping -> Stored/Failed (or Pending ->
\* Skipped, a resort without identifier never being scraped).
SeqOutcomeOnce == [](SeqDoneSummary) /\ [][SeqResortStep]_vars

\* C5 witness: a finished run holding a stored, a failed and a skipped resort
SeqOutcomeOnceWitness ==
    /\ seqPc = "done"
    /\ InState("Stored") # {}
    /\ InState("Failed") # {}
    /\ InState("Skipped") # {}

\* C6: every scraper invocation of a sequential run starts at least the fixed
\* delay after the previous invocation ended, whatever the previous outcome was.
SeqMinSpacing == \A g \in seqGaps : g >= SeqDelay

----------------------------------------------------------------------------
(* Bounded-concurrency orchestrator: GET /api/cron/scrape with p-limit      *)

\* the sequential run has not been called
SeqIdle ==
    /\ catalog = <<>>
    /\ seqPc = "idle"
    /\ seqI = 1
    /\ results = [total |-> 0, success |-> 0, failed |-> 0, skipped |-> 0,
                  errors |-> <<>>]
    /\ rstate = <<>>
    /\ outcome = <<>>
    /\ conditionsTable = <<>>
    /\ infoTable = [r \in {} |-> 0]
    /\ now = 0
    /\ wakeAt = 0
    /\ scrapeEnded = <<>>
    /\ seqGaps = {}

\* a step of the bounded-concurrency run leaves the other subsystems alone
CronFrame == UNCHANGED <<seqVars, famVars, cacheVars, scrVars, storeVars, aggVars, seaVars,
        syncVars, svcVars, favVars>>

CONCURRENCY == 2
DELAY_MS == 2000

\* the clock counts seconds
ConcDelay == DELAY_MS \div 1000

Min(a, b) == IF a < b THEN a ELSE b

Tasks == 1..Len(allResorts)

\* (mutant) every task is started at once, as without the limiter
PLimitUnbounded(n) == n

\* pLimit(CONCURRENCY): of n tasks handed to limit() at once, how many start
PLimitSlots(n) == Min(n, CONCURRENCY)

\* limit(async () => { if (index > 0) await sleep(DELAY_MS); ... }): the state
\* in which task i (index i - 1) starts, reaching its first await or the call
TaskStartState(i) == IF i > 1 THEN "sleeping" ELSE "ready"

CronInit ==
    /\ SeqIdle
    /\ FamIdle
    /\ CacheIdle
    /\ ScrapeIdle
    /\ StoreIdle
    /\ AggIdle
    /\ SeasonIdle
    /\ SyncIdle
    /\ ServiceIdle
    /\ FavIdle
    /\ allResorts \in SeqN(MaxResorts)
    /\ cronPc = "idle"
    /\ taskState = [i \in 1..Len(allResorts) |-> "queued"]
    /\ taskWake = [i \in 1..Len(allResorts) |-> 0]
    /\ limitQueue = <<>>
    /\ activeCount = 0
    /\ successCount = 0
    /\ failCount = 0
    /\ cronResponse = <<>>
    /\ cronNow = 0
    /\ scrapeStarts = <<>>

\* allResorts.map((resort, index) => limit(...)): every task is handed to the
\* limiter, which starts the first CONCURRENCY of them and queues the rest
CronMapTasks ==
    /\ cronPc = "idle"
    /\ cronPc' = "running"
    /\ LET n == Len(allResorts)
           k == PLimitSlots(n)
       IN /\ taskState' = [i \in 1..n |->
                              IF i <= k THEN TaskStartState(i) ELSE "queued"]
          /\ taskWake' = [i \in 1..n |-> IF i <= k THEN cronNow + ConcDelay ELSE 0]
          /\ limitQueue' = [j \in 1..(n - k) |-> k + j]
          /\ activeCount' = k
    /\ UNCHANGED <<allResorts, successCount, failCount, cronResponse, cronNow,
                   scrapeStarts>>
    /\ CronFrame

\* p-limit's next(), run when task i settles with state st: the slot goes to the
\* head of the queue, or is given back
TaskSettles(i, st) ==
    IF limitQueue = <<>>
      THEN /\ taskState' = [taskState EXCEPT ![i] = st]
           /\ activeCount' = activeCount - 1
           /\ UNCHANGED <<limitQueue, taskWake>>
      ELSE LET j == Head(limitQueue)
           IN /\ taskState' = [taskState EXCEPT ![i] = st,
                                                 ![j] = TaskStartState(j)]
              /\ taskWake' = [taskWake EXCEPT ![j] = cronNow + ConcDelay]
              /\ limitQueue' = Tail(limitQueue)
              /\ UNCHANGED activeCount

\* the timer of sleep(DELAY_MS) fired: the task goes on to scrapeAndStore
CronWake(i) ==
    /\ taskState[i] = "sleeping"
    /\ cronNow >= taskWake[i]
    /\ taskState' = [taskState EXCEPT ![i] = "ready"]
    /\ UNCHANGED <<allResorts, cronPc, taskWake, limitQueue, activeCount,
                   successCount, failCount, cronResponse, cronNow, scrapeStarts>>
    /\ CronFrame

\* scrapeAndStore: if (!resort.skiresortinfoId) return null; the task counts a
\* failure and settles
CronNoIdentifier(i) ==
    /\ taskState[i] = "ready"
    /\ allResorts[i] = ""
    /\ failCount' = failCount + 1
    /\ TaskSettles(i, "done")
    /\ UNCHANGED <<allResorts, cronPc, successCount, cronResponse, cronNow,
                   scrapeStarts>>
    /\ CronFrame

\* scrapeAndStore: const data = await scrapeResort(id): the request starts
CronScrapeStart(i) ==
    /\ taskState[i] = "ready"
    /\ allResorts[i] # ""
    /\ taskState' = [taskState EXCEPT ![i] = "scraping"]
    /\ scrapeStarts' = Append(scrapeStarts, cronNow)
    /\ UNCHANGED <<allResorts, cronPc, taskWake, limitQueue, activeCount,
                   successCount, failCount, cronResponse, cronNow>>
    /\ CronFrame

\* scrapeResort returned null: scrapeAndStore returns null, failCount++
CronScrapeNull(i) ==
    /\ taskState[i] = "scraping"
    /\ failCount' = failCount + 1
    /\ TaskSettles(i, "done")
    /\ UNCHANGED <<allResorts, cronPc, successCount, cronResponse, cronNow,
                   scrapeStarts>>
    /\ CronFrame

\* scrapeResort returned data: await db.insert(resortOperations) is issued
CronScrapeData(i) ==
    /\ taskState[i] = "scraping"
    /\ taskState' = [taskState EXCEPT ![i] = "storing"]
    /\ UNCHANGED <<allResorts, cronPc, taskWake, limitQueue, activeCount,
                   successCount, failCount, cronResponse, cronNow, scrapeStarts>>
    /\ CronFrame

\* the insert succeeded: scrapeAndStore returns data, successCount++
CronInsert(i) ==
    /\ taskState[i] = "storing"
    /\ successCount' = successCount + 1
    /\ TaskSettles(i, "done")
    /\ UNCHANGED <<allResorts, cronPc, failCount, cronResponse, cronNow,
                   scrapeStarts>>
    /\ CronFrame

\* the insert threw: scrapeAndStore rejects, so does the task, so does
\* Promise.all(tasks); the handler's catch answers 500 (once)
CronInsertThrows(i) ==
    /\ taskState[i] = "storing"
    /\ TaskSettles(i, "rejected")
    /\ cronResponse' = IF cronResponse = <<>>
                         THEN <<[status |-> 500, resortsScraped |-> 0, failed |-> 0]>>
                         ELSE cronResponse
    /\ UNCHANGED <<allResorts, cronPc, successCount, failCount, cronNow,
                   scrapeStarts>>
    /\ CronFrame

\* await Promise.all(tasks) resolved: res.json({success, resortsScraped, failed})
CronRespond ==
    /\ cronPc = "running"
    /\ cronResponse = <<>>
    /\ \A i \in Tasks : taskState[i] = "done"
    /\ cronResponse' = <<[status |-> 200, resortsScraped |-> successCount,
                          failed |-> failCount]>>
    /\ UNCHANGED <<allResorts, cronPc, taskState, taskWake, limitQueue,
                   activeCount, successCount, failCount, cronNow, scrapeStarts>>
    /\ CronFrame

\* time passes while some task awaits its timer, the network or the store; a
\* task between two awaits ("ready") runs on without delay
CronTick ==
    /\ cronPc = "running"
    /\ \E i \in Tasks : taskState[i] \in {"sleeping", "scraping", "storing"}
    /\ \A i \in Tasks : taskState[i] # "ready"
    /\ cronNow < MaxTime
    /\ cronNow' = cronNow + 1
    /\ UNCHANGED <<allResorts, cronPc, taskState, taskWake, limitQueue,
                   activeCount, successCount, failCount, cronResponse,
                   scrapeStarts>>
    /\ CronFrame

CronNext ==
    \/ CronMapTasks
    \/ \E i \in Tasks : CronWake(i)
    \/ \E i \in Tasks : CronNoIdentifier(i)
    \/ \E i \in Tasks : CronScrapeStart(i)
    \/ \E i \in Tasks : CronScrapeNull(i)
    \/ \E i \in Tasks : CronScrapeData(i)
    \/ \E i \in Tasks : CronInsert(i)
    \/ \E i \in Tasks : CronInsertThrows(i)
    \/ CronRespond
    \/ CronTick

SpecCron == CronInit /\ [][CronNext]_vars

----------------------------------------------------------------------------
(* Properties of the bounded-concurrency orchestrator                       *)

InFlight == {i \in Tasks : taskState[i] \in {"scraping", "storing"}}

\* C7: within one bounded-concurrency run at most CONCURRENCY (2) resorts are
\* being scraped and stored at once, whatever the catalog size and the order in
\* which the scrapes complete.
CronInFlightBound ==
    /\ Cardinality(InFlight) <= CONCURRENCY
    /\ activeCount <= CONCURRENCY

\* C7 witness: two resorts are in flight while a third one waits in the queue
CronInFlightBoundWitness ==
    /\ Cardinality(InFlight) = CONCURRENCY
    /\ limitQueue # <<>>

\* C8: no two scrape requests of a bounded-concurrency run start less than
\* DELAY_MS apart.
CronMinSpacing ==
    \A a, b \in 1..Len(scrapeStarts) :
        a < b => scrapeStarts[b] - scrapeStarts[a] >= ConcDelay

\* C9: when a store insert throws, the resort is counted failed and the run
\* completes with its summary: the endpoint answers with counts that cover the
\* whole catalog, never with an error.
CronStoreFailureCounted ==
    cronResponse # <<>> =>
        /\ cronResponse[1].status = 200
        /\ cronResponse[1].resortsScraped + cronResponse[1].failed = Len(allResorts)

----------------------------------------------------------------------------
(* Multi-model weather client: fetchAllModels                                *)

FamFrame == UNCHANGED <<seqVars, cronVars, cacheVars, scrVars, storeVars, aggVars, seaVars,
        syncVars, svcVars, favVars>>

Endpoints == {"gfs", "ecmwf", "hrrr", "archive"}
Models == {"gfs", "ecmwf", "hrrr"}

\* a snowfall value of an upstream array, in tenths of a cm; <<>> is JSON null
Values == {<<>>, <<10>>}

\* daily arrays carry one entry per date; hourly arrays several per date
DailyDate(i) == i
HourlyDate(i) == (i + 1) \div 2

\* the parallel arrays time[] / snowfall_sum[] of a daily member, as a sequence
\* of entries (the date part of the timestamp, the value)
DailyBodies(n) ==
    UNION {{[i \in 1..k |-> [date |-> DailyDate(i), value |-> v[i]]] :
              v \in [1..k -> Values]} : k \in 0..n}

\* time[] / snowfall[] of an hourly member
HourlyBodies(n) ==
    UNION {{[i \in 1..k |-> [date |-> HourlyDate(i), value |-> v[i]]] :
              v \in [1..k -> Values]} : k \in 0..n}

\* what endpoint e can answer: the request fails, a non-2xx status, a body that
\* is not JSON, or a JSON body whose daily / hourly member is <<>> (absent) or
\* <<the entries>>
Responses(e) ==
    {[kind |-> k, daily |-> <<>>, hourly |-> <<>>] :
        k \in {"neterr", "http500", "badjson", "ok"}}
    \cup (IF e = "hrrr"
            THEN {[kind |-> "ok", daily |-> <<>>, hourly |-> <<h>>] :
                    h \in HourlyBodies(MaxSamples)}
            ELSE {[kind |-> "ok", daily |-> <<d>>, hourly |-> <<>>] :
                    d \in DailyBodies(MaxSamples)})

\* values[i] || 0
OrZero(v) == IF v = <<>> THEN 0 ELSE v[1]

\* Math.round(cmToInches(cm) * 100) / 100, in hundredths of an inch, for cm in
\* tenths of a cm: round(cm / 2.54 * 100)
RoundedInches(cmTenths) == (cmTenths * 2000 + 254) \div 508

\* data.daily.time.map((date, i) => ({date, snowfallInches: ...}))
DailyData(samples) ==
    [i \in 1..Len(samples) |->
        [date |-> samples[i].date,
         snowfallInches |-> RoundedInches(OrZero(samples[i].value))]]

\* dailyMap.set(date, (dailyMap.get(date) || 0) + (values[i] || 0)), the Map
\* keeping its keys in insertion order
\* (mutant) the Map keeps the last value of a date instead of the running sum
LastSampleWins(current, v) == v

\* current + (values[i] || 0)
AddSample(current, v) == current + v

RECURSIVE DailyMap(_)
DailyMap(samples) ==
    IF samples = <<>> THEN <<>>
    ELSE LET n == Len(samples)
             m == DailyMap(SubSeq(samples, 1, n - 1))
             d == samples[n].date
             v == OrZero(samples[n].value)
         IN IF \E k \in 1..Len(m) : m[k].date = d
              THEN [k \in 1..Len(m) |->
                      IF m[k].date = d THEN [m[k] EXCEPT !.total = AddSample(@, v)]
                      ELSE m[k]]
              ELSE Append(m, [date |-> d, total |-> AddSample(0, v)])

aggregateHourlyToDaily(samples) ==
    LET m == DailyMap(samples)
    IN [k \in 1..Len(m) |->
          [date |-> m[k].date, snowfallInches |-> RoundedInches(m[k].total)]]

Returned(v) == [threw |-> FALSE, value |-> <<v>>]
Threw == [threw |-> TRUE, value |-> <<>>]

Unavailable(msg) == [available |-> FALSE, data |-> <<>>, error |-> <<msg>>]
Available(d) == [available |-> TRUE, data |-> d, error |-> <<>>]

\* error.message of what the try block threw
ErrorMessage(name, resp) ==
    CASE resp.kind = "neterr" -> "fetch failed"
      [] resp.kind = "http500" -> name \o " API error: 500"
      [] OTHER -> "Unexpected token in JSON"

\* (mutant) the catch block returns the slot without a message
SlotWithoutError(msg) == [available |-> FALSE, data |-> <<>>, error |-> <<>>]

\* catch (error) { return {available: false, data: [], error: message} }
CaughtSlot(msg) == Unavailable(msg)

\* fetchGFSForecast
fetchGFSForecast(resp) ==
    IF resp.kind # "ok" THEN Returned(CaughtSlot(ErrorMessage("GFS", resp)))
    ELSE IF resp.daily = <<>> THEN Returned(Unavailable("No daily data"))
    ELSE Returned(Available(DailyData(resp.daily[1])))

\* fetchECMWFForecast
fetchECMWFForecast(resp) ==
    IF resp.kind # "ok" THEN Returned(CaughtSlot(ErrorMessage("ECMWF", resp)))
    ELSE IF resp.daily = <<>> THEN Returned(Unavailable("No daily data"))
    ELSE Returned(Available(DailyData(resp.daily[1])))

\* fetchHRRRForecast
fetchHRRRForecast(resp) ==
    IF resp.kind # "ok" THEN Returned(CaughtSlot(ErrorMessage("HRRR", resp)))
    ELSE IF resp.hourly = <<>> THEN Returned(Unavailable("No hourly data"))
    ELSE Returned(Available(aggregateHourlyToDaily(resp.hourly[1])))

\* (mutant) the archive fetch has no try/catch around fetch and json
HistoricalUncaught(resp) ==
    IF resp.kind \in {"neterr", "badjson"} THEN Threw
    ELSE IF resp.kind # "ok" THEN Returned(<<>>)
    ELSE IF resp.daily = <<>> THEN Returned(<<>>)
    ELSE Returned(DailyData(resp.daily[1]))

\* fetchHistoricalSnowfall
fetchHistoricalSnowfall(resp) ==
    IF resp.kind # "ok" THEN Returned(<<>>)
    ELSE IF resp.daily = <<>> THEN Returned(<<>>)
    ELSE Returned(DailyData(resp.daily[1]))

FetchOf(e, resp) ==
    CASE e = "gfs" -> fetchGFSForecast(resp)
      [] e = "ecmwf" -> fetchECMWFForecast(resp)
      [] e = "hrrr" -> fetchHRRRForecast(resp)
      [] OTHER -> fetchHistoricalSnowfall(resp)

\* the callers of Promise.all: fetchAllModels (daily), fetchAllModelsHourly
\* (hourly) and the GET handler of the season-snowfall endpoint (season)
Clients == {"daily", "hourly", "season"}

\* the three date ranges the season-snowfall handler asks the archive for
SeasonRanges == {"current", "lastToDate", "lastFull"}

EndpointsOf(client) ==
    CASE client = "daily" -> Endpoints
      [] client = "hourly" -> Models
      [] OTHER -> SeasonRanges

\* what the endpoints of the hourly client and of the archive can answer
HourlyResponses ==
    {[kind |-> k, daily |-> <<>>, hourly |-> <<>>] :
        k \in {"neterr", "http500", "badjson", "ok"}}
    \cup {[kind |-> "ok", daily |-> <<>>, hourly |-> <<h>>] :
             h \in HourlyBodies(MaxSamples)}

ResponsesOf(client, e) ==
    CASE client = "daily" -> Responses(e)
      [] client = "hourly" -> HourlyResponses
      [] OTHER -> Responses("archive")

\* snowInches: hourly.snowfall?.[i] != null ? round(cmToInches(..) * 100) / 100
\* : null
SnowInches(v) == IF v = <<>> THEN <<>> ELSE <<RoundedInches(v[1])>>

\* transformHourlyData: one point per entry of hourly.time
transformHourlyData(samples) ==
    [i \in 1..Len(samples) |->
        [time |-> samples[i].date, snowInches |-> SnowInches(samples[i].value)]]

\* fetchGFSHourly / fetchECMWFHourly / fetchHRRRHourly: the same body but for
\* the model name; !data.hourly?.time?.length also rejects an empty time array
fetchHourly(name, resp) ==
    IF resp.kind # "ok" THEN Returned(CaughtSlot(ErrorMessage(name, resp)))
    ELSE IF resp.hourly = <<>> THEN Returned(Unavailable("No hourly data"))
    ELSE IF resp.hourly[1] = <<>> THEN Returned(Unavailable("No hourly data"))
    ELSE Returned(Available(transformHourlyData(resp.hourly[1])))

\* fetchDailySnowfallData of the season-snowfall endpoint: no try/catch; a
\* body without the daily member throws on data.daily.time
fetchDailySnowfallData(resp) ==
    IF resp.kind # "ok" THEN Threw
    ELSE IF resp.daily = <<>> THEN Threw
    ELSE Returned([i \in 1..Len(resp.daily[1]) |->
                     [date |-> resp.daily[1][i].date,
                      snowfallCm |-> OrZero(resp.daily[1][i].value)]])

ModelName(e) ==
    CASE e = "gfs" -> "GFS" [] e = "ecmwf" -> "ECMWF" [] OTHER -> "HRRR"

FetchOfClient(client, e, resp) ==
    CASE client = "daily" -> FetchOf(e, resp)
      [] client = "hourly" -> fetchHourly(ModelName(e), resp)
      [] OTHER -> fetchDailySnowfallData(resp)

\* (mutant) the calls are awaited one after the other: only the first is made
IssuedFirstOnly(client) ==
    IF client = "season" THEN {"current"} ELSE {"gfs"}

\* the array literal handed to Promise.all is evaluated in one synchronous
\* block: every call runs up to its own await fetch(...)
IssuedAtCall(client) == EndpointsOf(client)

FamInit ==
    /\ SeqIdle
    /\ CronIdle
    /\ CacheIdle
    /\ ScrapeIdle
    /\ StoreIdle
    /\ AggIdle
    /\ SeasonIdle
    /\ SyncIdle
    /\ ServiceIdle
    /\ FavIdle
    /\ famClient \in Clients
    /\ upstream \in [EndpointsOf(famClient) ->
                        UNION {ResponsesOf(famClient, e) : e \in EndpointsOf(famClient)}]
    /\ \A e \in EndpointsOf(famClient) : upstream[e] \in ResponsesOf(famClient, e)
    /\ famPc = "idle"
    /\ subState = [e \in EndpointsOf(famClient) |-> "idle"]
    /\ subResult = [e \in EndpointsOf(famClient) |-> Threw]
    /\ famResult = <<>>

\* Promise.all([fetchGFSForecast(..), fetchECMWFForecast(..), fetchHRRRForecast(..),
\* fetchHistoricalSnowfall(..)]): the four calls are made, each up to its fetch
FamCall ==
    /\ famPc = "idle"
    /\ famPc' = "awaiting"
    /\ subState' = [e \in EndpointsOf(famClient) |->
                       IF e \in IssuedAtCall(famClient) THEN "inflight" ELSE "idle"]
    /\ UNCHANGED <<famClient, upstream, subResult, famResult>>
    /\ FamFrame

\* the request of endpoint e ended and its fetch function returned (or threw);
\* Promise.all rejects with the first rejection
FamSettle(e) ==
    /\ famPc \in {"awaiting", "rejected"}
    /\ e \in EndpointsOf(famClient)
    /\ subState[e] = "inflight"
    /\ subState' = [subState EXCEPT ![e] = "settled"]
    /\ subResult' = [subResult EXCEPT ![e] = FetchOfClient(famClient, e, upstream[e])]
    /\ famPc' = IF FetchOfClient(famClient, e, upstream[e]).threw
                  THEN "rejected" ELSE famPc
    /\ UNCHANGED <<famClient, upstream, famResult>>
    /\ FamFrame

\* all four settled: return {models: {gfs, ecmwf, hrrr}, historical, fetchedAt}
FamReturn ==
    /\ famPc = "awaiting"
    /\ \A e \in EndpointsOf(famClient) : subState[e] = "settled"
    /\ famPc' = "resolved"
    /\ famResult' =
         CASE famClient = "daily" ->
                <<[models |-> [m \in Models |-> subResult[m].value[1]],
                   historical |-> subResult["archive"].value[1]]>>
           [] famClient = "hourly" ->
                <<[models |-> [m \in Models |-> subResult[m].value[1]]]>>
           [] OTHER ->
                <<[r \in SeasonRanges |-> subResult[r].value[1]]>>
    /\ UNCHANGED <<famClient, upstream, subState, subResult>>
    /\ FamFrame

FamNext ==
    \/ FamCall
    \/ \E e \in Endpoints \cup SeasonRanges : FamSettle(e)
    \/ FamReturn

SpecFam == FamInit /\ [][FamNext]_vars

----------------------------------------------------------------------------
(* Properties of fetchAllModels                                              *)

\* the endpoint answered 2xx with the member its model reads
HasData(e, resp) ==
    /\ resp.kind = "ok"
    /\ IF e = "hrrr" THEN resp.hourly # <<>> ELSE resp.daily # <<>>

DatesOf(samples) == {samples[i].date : i \in 1..Len(samples)}
DatesIn(data) == {data[i].date : i \in 1..Len(data)}
BodyOf(e, resp) == IF e = "hrrr" THEN resp.hourly[1] ELSE resp.daily[1]

\* C2: fetchAllModels never rejects; for every combination of endpoint outcomes
\* it resolves with the three model slots, each decided by its own endpoint
\* alone (unavailable with a message exactly when that endpoint failed or lacked
\* the expected member, else its data), and an archive failure yields
\* historical = [] and changes no slot.
FamNeverRejects ==
    famClient = "daily" =>
    /\ famPc # "rejected"
    /\ \A e \in Endpoints : subState[e] = "settled" => ~subResult[e].threw
    /\ famPc = "resolved" =>
         /\ DOMAIN famResult[1].models = Models
         /\ \A m \in Models :
              LET slot == famResult[1].models[m]
              IN IF HasData(m, upstream[m])
                   THEN /\ slot.available
                        /\ slot.error = <<>>
                        /\ DatesIn(slot.data) = DatesOf(BodyOf(m, upstream[m]))
                   ELSE /\ ~slot.available
                        /\ slot.data = <<>>
                        /\ slot.error # <<>>
         /\ ~HasData("archive", upstream["archive"]) => famResult[1].historical = <<>>
         /\ HasData("archive", upstream["archive"]) =>
              DatesIn(famResult[1].historical) = DatesOf(BodyOf("archive", upstream["archive"]))

\* C2 witness: one model endpoint answered 500, the other two answered with
\* data, the archive request failed, and fetchAllModels resolved
FamNeverRejectsWitness ==
    /\ famClient = "daily"
    /\ famPc = "resolved"
    /\ upstream["ecmwf"].kind = "http500"
    /\ upstream["archive"].kind = "neterr"
    /\ famResult[1].models["gfs"].data # <<>>
    /\ famResult[1].models["hrrr"].data # <<>>
    /\ ~famResult[1].models["ecmwf"].available
    /\ famResult[1].historical = <<>>

----------------------------------------------------------------------------
(* Snapshot cache: GET of the forecast and of the snowfall-chart endpoint    *)

CacheFrame == UNCHANGED <<seqVars, cronVars, famVars, scrVars, storeVars, aggVars, seaVars,
        syncVars, svcVars, favVars>>

CACHE_DURATION_HOURS == 1

\* the clock of the read paths counts hours
CacheTtl == CACHE_DURATION_HOURS

Requests == 1..MaxRequests
Paths == {"forecast", "chart"}

\* eq(forecastSnapshots.model, ...): the model name each path reads and writes
ModelOf(path) == IF path = "forecast" THEN "open-meteo" ELSE "multi-model"

\* (mutant) the query does not look at expiresAt
AnyAge(snap, t) == TRUE

\* gt(forecastSnapshots.expiresAt, new Date())
NotExpired(snap, t) == snap.expiresAt > t

\* where(and(eq(resortId), eq(model), gt(expiresAt, now)))
Matching(path, t) ==
    {id \in 1..Len(forecastSnapshots) :
        /\ forecastSnapshots[id].model = ModelOf(path)
        /\ NotExpired(forecastSnapshots[id], t)}

\* fetchedAt is a timestamp of microseconds: of two rows stored within the
\* same hour of the model's clock, the one inserted first has the lesser one
FetchedBefore(a, b) ==
    \/ forecastSnapshots[a].fetchedAt < forecastSnapshots[b].fetchedAt
    \/ /\ forecastSnapshots[a].fetchedAt = forecastSnapshots[b].fetchedAt
       /\ a < b

\* .orderBy(forecastSnapshots.fetchedAt).limit(1): the row of least fetchedAt
FirstByFetchedAt(ids) ==
    {id \in ids : \A other \in ids \ {id} : FetchedBefore(id, other)}

NewRequest(path) == [pc |-> "new", path |-> path, t |-> 0, hit |-> FALSE,
                     snap |-> 0, payload |-> 0, expiresAt |-> 0, fetches |-> 0,
                     inserts |-> 0, resp |-> <<>>, available |-> TRUE]

\* requests are numbered in the order in which they reach their select
Arrives(r) == IF r = 1 THEN TRUE ELSE req[r - 1].pc # "new"

Response(status, snap, payload, hourly, daily) ==
    <<[status |-> status, snap |-> snap, payload |-> payload,
       hourly |-> hourly, daily |-> daily]>>

CacheInit ==
    /\ SeqIdle
    /\ CronIdle
    /\ FamIdle
    /\ ScrapeIdle
    /\ StoreIdle
    /\ AggIdle
    /\ SeasonIdle
    /\ SyncIdle
    /\ ServiceIdle
    /\ FavIdle
    /\ forecastSnapshots = <<>>
    /\ hourlyForecasts = {}
    /\ dailyForecasts = {}
    /\ \E path \in Paths : req = [r \in Requests |-> NewRequest(path)]
    /\ upstreamFetches = 0
    /\ cacheNow = 0

\* the select of existingSnapshot found a row: the chart path answers with its
\* rawData, the forecast path goes on to read its hourly and daily rows
CacheHit(r) ==
    /\ req[r].pc = "new"
    /\ Arrives(r)
    /\ \E id \in FirstByFetchedAt(Matching(req[r].path, cacheNow)) :
          req' = [req EXCEPT ![r] =
                    [@ EXCEPT !.t = cacheNow, !.hit = TRUE,
                              !.snap = id,
                              !.payload = forecastSnapshots[id].rawData,
                              !.pc = IF req[r].path = "chart" THEN "done"
                                                               ELSE "reading",
                              !.resp = IF req[r].path = "chart"
                                         THEN Response(200, id,
                                                forecastSnapshots[id].rawData,
                                                FALSE, FALSE)
                                         ELSE <<>>]]
    /\ UNCHANGED <<forecastSnapshots, hourlyForecasts, dailyForecasts,
                   upstreamFetches, cacheNow>>
    /\ CacheFrame

\* the select found no row: fetchForecast / fetchAllModels is called
CacheMiss(r) ==
    /\ req[r].pc = "new"
    /\ Arrives(r)
    /\ Matching(req[r].path, cacheNow) = {}
    /\ req' = [req EXCEPT ![r] =
                 [@ EXCEPT !.t = cacheNow, !.pc = "fetching",
                           !.fetches = @ + 1]]
    /\ UNCHANGED <<forecastSnapshots, hourlyForecasts, dailyForecasts,
                   upstreamFetches, cacheNow>>
    /\ CacheFrame

\* what an upstream call can return: fetchForecast returns the forecast (it
\* throws otherwise), fetchAllModels returns its MultiModelResponse, in which
\* some model is available or every slot is unavailable
Availabilities(path) == IF path = "forecast" THEN {TRUE} ELSE BOOLEAN

\* the upstream call returned; expiresAt = new Date() + CACHE_DURATION_HOURS and
\* the snapshot insert is issued
CacheFetchReturns(r) ==
    /\ req[r].pc = "fetching"
    /\ upstreamFetches' = upstreamFetches + 1
    /\ \E a \in Availabilities(req[r].path) :
          req' = [req EXCEPT ![r] =
                    [@ EXCEPT !.payload = upstreamFetches + 1,
                              !.available = a,
                              !.expiresAt = cacheNow + CacheTtl,
                              !.pc = "inserting"]]
    /\ UNCHANGED <<forecastSnapshots, hourlyForecasts, dailyForecasts, cacheNow>>
    /\ CacheFrame

\* fetchForecast threw (WeatherApiError or a network error): the handler's catch
\* answers 503 or 500; fetchAllModels of the chart path never throws
CacheFetchThrows(r) ==
    /\ req[r].pc = "fetching"
    /\ req[r].path = "forecast"
    /\ req' = [req EXCEPT ![r] =
                 [@ EXCEPT !.pc = "done", !.resp = Response(503, 0, 0, FALSE, FALSE)]]
    /\ UNCHANGED <<forecastSnapshots, hourlyForecasts, dailyForecasts,
                   upstreamFetches, cacheNow>>
    /\ CacheFrame

\* db.insert(forecastSnapshots).values({resortId, model, expiresAt, rawData});
\* fetchedAt defaults to now(). The chart path then answers, the forecast path
\* goes on to insert the hourly and daily rows
CacheInsertSnapshot(r) ==
    /\ req[r].pc = "inserting"
    /\ forecastSnapshots' = Append(forecastSnapshots,
                               [model |-> ModelOf(req[r].path),
                                fetchedAt |-> cacheNow,
                                expiresAt |-> req[r].expiresAt,
                                rawData |-> req[r].payload,
                                available |-> req[r].available])
    /\ req' = [req EXCEPT ![r] =
                 [@ EXCEPT !.snap = Len(forecastSnapshots) + 1,
                           !.inserts = @ + 1,
                           !.pc = IF req[r].path = "chart" THEN "done" ELSE "children",
                           !.resp = IF req[r].path = "chart"
                                      THEN Response(200, Len(forecastSnapshots) + 1,
                                                    req[r].payload, FALSE, FALSE)
                                      ELSE <<>>]]
    /\ UNCHANGED <<hourlyForecasts, dailyForecasts, upstreamFetches, cacheNow>>
    /\ CacheFrame

\* the snapshot insert threw: the handler's catch answers 500
CacheInsertSnapshotThrows(r) ==
    /\ req[r].pc = "inserting"
    /\ req' = [req EXCEPT ![r] =
                 [@ EXCEPT !.pc = "done", !.resp = Response(500, 0, 0, FALSE, FALSE)]]
    /\ UNCHANGED <<forecastSnapshots, hourlyForecasts, dailyForecasts,
                   upstreamFetches, cacheNow>>
    /\ CacheFrame

\* Promise.all([insert(hourlyForecasts), insert(dailyForecasts)]) resolved
CacheInsertChildren(r) ==
    /\ req[r].pc = "children"
    /\ hourlyForecasts' = hourlyForecasts \cup {req[r].snap}
    /\ dailyForecasts' = dailyForecasts \cup {req[r].snap}
    /\ req' = [req EXCEPT ![r] = [@ EXCEPT !.pc = "reading"]]
    /\ UNCHANGED <<forecastSnapshots, upstreamFetches, cacheNow>>
    /\ CacheFrame

\* one of the two inserts threw (the other may have stored its rows): the
\* handler's catch answers 500
CacheInsertChildrenThrows(r) ==
    /\ req[r].pc = "children"
    /\ \E stored \in {"none", "hourly", "daily"} :
          /\ hourlyForecasts' = IF stored = "hourly"
                                  THEN hourlyForecasts \cup {req[r].snap}
                                  ELSE hourlyForecasts
          /\ dailyForecasts' = IF stored = "daily"
                                 THEN dailyForecasts \cup {req[r].snap}
                                 ELSE dailyForecasts
    /\ req' = [req EXCEPT ![r] =
                 [@ EXCEPT !.pc = "done", !.resp = Response(500, 0, 0, FALSE, FALSE)]]
    /\ UNCHANGED <<forecastSnapshots, upstreamFetches, cacheNow>>
    /\ CacheFrame

\* the selects of the hourly and daily rows of snapshot.id, and the answer
CacheReadChildren(r) ==
    /\ req[r].pc = "reading"
    /\ req' = [req EXCEPT ![r] =
                 [@ EXCEPT !.pc = "done",
                           !.resp = Response(200, req[r].snap, 0,
                                      req[r].snap \in hourlyForecasts,
                                      req[r].snap \in dailyForecasts)]]
    /\ UNCHANGED <<forecastSnapshots, hourlyForecasts, dailyForecasts,
                   upstreamFetches, cacheNow>>
    /\ CacheFrame

\* time passes, for as long as a request is still to arrive or to answer
CacheTick ==
    /\ \E r \in Requests : req[r].pc # "done"
    /\ cacheNow < MaxHours
    /\ cacheNow' = cacheNow + 1
    /\ UNCHANGED <<forecastSnapshots, hourlyForecasts, dailyForecasts, req,
                   upstreamFetches>>
    /\ CacheFrame

CacheNext ==
    \/ \E r \in Requests : CacheHit(r)
    \/ \E r \in Requests : CacheMiss(r)
    \/ \E r \in Requests : CacheFetchReturns(r)
    \/ \E r \in Requests : CacheFetchThrows(r)
    \/ \E r \in Requests : CacheInsertSnapshot(r)
    \/ \E r \in Requests : CacheInsertSnapshotThrows(r)
    \/ \E r \in Requests : CacheInsertChildren(r)
    \/ \E r \in Requests : CacheInsertChildrenThrows(r)
    \/ \E r \in Requests : CacheReadChildren(r)
    \/ CacheTick

SpecCache == CacheInit /\ [][CacheNext]_vars

\* the tables as two concurrent misses of one key leave them: two snapshots
\* of the key, both fetched in hour 0 and expiring an hour later, each with
\* its hourly and daily rows on the forecast path
CacheWarmInit ==
    /\ SeqIdle
    /\ CronIdle
    /\ FamIdle
    /\ ScrapeIdle
    /\ StoreIdle
    /\ AggIdle
    /\ SeasonIdle
    /\ SyncIdle
    /\ ServiceIdle
    /\ FavIdle
    /\ \E path \in Paths :
          /\ req = [r \in Requests |-> NewRequest(path)]
          /\ forecastSnapshots =
                 [id \in 1..2 |-> [model |-> ModelOf(path), fetchedAt |-> 0,
                                   expiresAt |-> CacheTtl, rawData |-> id,
                                   available |-> TRUE]]
          /\ hourlyForecasts = IF path = "forecast" THEN {1, 2} ELSE {}
          /\ dailyForecasts = IF path = "forecast" THEN {1, 2} ELSE {}
    /\ upstreamFetches = 2
    /\ cacheNow = 0

SpecCacheWarm == CacheWarmInit /\ [][CacheNext]_vars

----------------------------------------------------------------------------
(* Properties of the snapshot cache                                          *)

Began == {r \in Requests : req[r].pc # "new"}
Answered == {r \in Requests : req[r].pc = "done"}
Snap(r) == forecastSnapshots[req[r].snap]

\* a snapshot of r's key that was stored before r's select and not expired then
FreshBefore(r) ==
    {id \in 1..Len(forecastSnapshots) :
        /\ forecastSnapshots[id].model = ModelOf(req[r].path)
        /\ forecastSnapshots[id].fetchedAt < req[r].t
        /\ forecastSnapshots[id].expiresAt > req[r].t}

\* the answer carries the payload of snapshot id: its rawData on the chart path,
\* its hourly and daily rows on the forecast path
CarriesSnapshot(r, id) ==
    /\ req[r].resp[1].status = 200
    /\ req[r].resp[1].snap = id
    /\ IF req[r].path = "chart"
         THEN req[r].resp[1].payload = forecastSnapshots[id].rawData
         ELSE req[r].resp[1].hourly /\ req[r].resp[1].daily

\* C3 as stated: a request at time t that finds a snapshot with expiresAt > t
\* makes no fetch and no insert and returns that snapshot's payload; otherwise
\* it makes exactly one fetch, inserts exactly one snapshot with expiresAt =
\* t + 1 hour and returns the fetched payload.
CacheReadThrough ==
    \A r \in Answered :
        IF req[r].hit
          THEN /\ req[r].fetches = 0
               /\ req[r].inserts = 0
               /\ Snap(r).expiresAt > req[r].t
               /\ CarriesSnapshot(r, req[r].snap)
          ELSE /\ req[r].fetches = 1
               /\ req[r].inserts = 1
               /\ Snap(r).expiresAt = req[r].t + CacheTtl
               /\ Snap(r).rawData = req[r].payload
               /\ CarriesSnapshot(r, req[r].snap)

\* C3 as amended: a hit makes no fetch and no insert and its 200 answer is
\* built from a snapshot of its key that was not expired at the time of the
\* select (the chart path from its rawData, the forecast path from the rows
\* stored for it); a miss happens only when no unexpired snapshot of the key was stored
\* before the select, makes exactly one fetch and inserts at most one
\* snapshot, none when the fetch or the insert throws; the snapshot holds the
\* fetched payload and expires one hour after the fetch returned, so not
\* before t + 1 hour; a 200 answer of a miss comes from the inserted snapshot.
CacheReadThroughAmended ==
    \A r \in Began :
        IF req[r].hit
          THEN /\ req[r].fetches = 0
               /\ req[r].inserts = 0
               /\ req[r].snap \in 1..Len(forecastSnapshots)
               /\ Snap(r).model = ModelOf(req[r].path)
               /\ Snap(r).expiresAt > req[r].t
               /\ Snap(r).fetchedAt <= req[r].t
               /\ r \in Answered /\ req[r].resp[1].status = 200 =>
                    /\ req[r].resp[1].snap = req[r].snap
                    /\ req[r].path = "chart" =>
                         req[r].resp[1].payload = Snap(r).rawData
          ELSE /\ req[r].fetches = 1
               /\ req[r].inserts <= 1
               /\ FreshBefore(r) = {}
               /\ req[r].inserts = 1 =>
                    /\ Snap(r).model = ModelOf(req[r].path)
                    /\ Snap(r).rawData = req[r].payload
                    /\ Snap(r).expiresAt = req[r].expiresAt
                    /\ Snap(r).expiresAt >= req[r].t + CacheTtl
               /\ r \in Answered =>
                    IF req[r].resp[1].status = 200
                      THEN /\ req[r].inserts = 1
                           /\ req[r].resp[1].snap = req[r].snap
                           /\ req[r].path = "chart" =>
                                req[r].resp[1].payload = req[r].payload
                      ELSE req[r].resp[1].snap = 0

\* C3 witness: one request missed, fetched, stored a snapshot and answered; a
\* later request found that snapshot unexpired and answered from it
CacheReadThroughWitness ==
    \E a, b \in Answered :
        /\ ~req[a].hit /\ req[a].inserts = 1 /\ req[a].resp[1].status = 200
        /\ req[b].hit /\ req[b].snap = req[a].snap
        /\ req[b].t > req[a].t
        /\ req[b].resp[1].status = 200

\* a request that found only an expired snapshot of its key and fetched again
CacheExpiredMiss ==
    \E b \in Began :
        /\ ~req[b].hit
        /\ \E id \in 1..Len(forecastSnapshots) :
             /\ forecastSnapshots[id].model = ModelOf(req[b].path)
             /\ forecastSnapshots[id].fetchedAt < req[b].t
             /\ forecastSnapshots[id].expiresAt <= req[b].t

----------------------------------------------------------------------------
(* scrapeResortConditions: the copy of src/lib/scraper (variant "lib") and   *)
(* the copy of the standalone scraper package (variant "standalone")         *)

ScrFrame == UNCHANGED <<seqVars, cronVars, famVars, cacheVars, storeVars, aggVars, seaVars,
        syncVars, svcVars, favVars>>

Variants == {"lib", "standalone"}

Null == <<>>
Opt(S) == {Null} \cup {<<x>> : x \in S}

\* the texts of a primary page that the regular expressions look for:
\*   openPhrase  "resort is open"
\*   liftPair    "<open> of <total> lifts" or "<open>/<total> lifts"
\*   liftLabel   "Number of ski lifts: <n>"
\*   summitCm    "summit ... <n> cm"
\*   runs        "<n> runs"
\*   gondola     "<n> gondola lift"
\*   highSpeed   every "<n> 6pers. High speed chairlift (detachable)"
\*   fixedGrip   every "<n> 4pers. Chairlift (fixed-grip)"
\*   surface     "<n> T-bar lift/platter/button lift"
\*   carpet      "<n> People mover/Moving Carpet"
LiftPairs ==
    {Null} \cup {<<[sep |-> sp, open |-> o, total |-> 3]>> :
                    sp \in {"of", "/"}, o \in {0, 2}}

PrimaryPages ==
    [openPhrase : BOOLEAN, liftPair : LiftPairs, liftLabel : Opt({0, 3}),
     summitCm : Opt({94}), runs : Opt({40}), gondola : Opt({2}),
     highSpeed : {<<>>, <<0>>, <<2, 1>>}, fixedGrip : {<<>>, <<1>>},
     surface : Opt({4}), carpet : Opt({7})]

\* the texts of a lift-breakdown page: "gondola lift (<n>)", ", Chairlift (<n>)",
\* "T-bar lift/platter/button lift (<n>)", "Moving Carpet (<n>)"
LiftsPages ==
    [gondola : Opt({0, 2}), chairlift : Opt({0, 5}), surface : Opt({4}),
     carpet : Opt({7})]

\* html.includes("lifts"), html.includes(" of "), html.includes("0 of")
IncludesLifts(page) == page.liftPair # Null \/ page.liftLabel # Null
IncludesOf(page) ==
    \/ page.liftPair # Null /\ page.liftPair[1].sep = "of"
    \/ page.liftLabel # Null
IncludesZeroOf(page) ==
    /\ page.liftPair # Null
    /\ page.liftPair[1].sep = "of"
    /\ page.liftPair[1].open % 10 = 0

parseConditions(page) ==
    [isOpen |-> \/ page.openPhrase
                \/ IncludesLifts(page) /\ IncludesOf(page) /\ ~IncludesZeroOf(page),
     snowDepthSummit |-> page.summitCm,
     liftsOpen |-> IF page.liftPair # Null THEN <<page.liftPair[1].open>> ELSE Null,
     liftsTotal |-> IF page.liftPair # Null THEN <<page.liftPair[1].total>> ELSE Null]

RECURSIVE SumOf(_)
SumOf(counts) == IF counts = <<>> THEN 0 ELSE Head(counts) + SumOf(Tail(counts))

\* let total = 0; for (match of matchAll) total += parseInt(match[1]);
\* if (total > 0) field = total
SummedCount(counts) == IF SumOf(counts) > 0 THEN <<SumOf(counts)>> ELSE Null

\* liftsTotal of parseResortInfo: "<open>/<total> lifts", else the labelled total
InfoLiftsTotal(page) ==
    IF page.liftPair # Null /\ page.liftPair[1].sep = "/"
      THEN <<page.liftPair[1].total>>
      ELSE page.liftLabel

\* only the lib copy of parseResortInfo looks for lift-type counts
parseResortInfo(variant, page) ==
    [liftsTotal |-> InfoLiftsTotal(page),
     runsTotal |-> page.runs,
     liftsGondolas |-> IF variant = "lib" THEN page.gondola ELSE Null,
     liftsChairliftsHighSpeed |->
         IF variant = "lib" THEN SummedCount(page.highSpeed) ELSE Null,
     liftsChairliftsFixedGrip |->
         IF variant = "lib" THEN SummedCount(page.fixedGrip) ELSE Null,
     liftsSurface |-> IF variant = "lib" THEN page.surface ELSE Null,
     liftsCarpets |-> IF variant = "lib" THEN page.carpet ELSE Null]

\* if (match) info.field = parseInt(match[1])
Overwrite(found, old) == IF found # Null THEN found ELSE old

\* !info.liftsTotal
Falsy(v) == v = Null \/ v[1] = 0

parseLiftDetails(page, info) ==
    LET set == [info EXCEPT
                  !.liftsGondolas = Overwrite(page.gondola, @),
                  !.liftsChairliftsHighSpeed = Overwrite(page.chairlift, @),
                  !.liftsSurface = Overwrite(page.surface, @),
                  !.liftsCarpets = Overwrite(page.carpet, @)]
        componentTotal == OrZero(set.liftsGondolas)
                          + OrZero(set.liftsChairliftsHighSpeed)
                          + OrZero(set.liftsChairliftsFixedGrip)
                          + OrZero(set.liftsSurface)
                          + OrZero(set.liftsCarpets)
    IN IF Falsy(set.liftsTotal) /\ componentTotal > 0
         THEN [set EXCEPT !.liftsTotal = <<componentTotal>>]
         ELSE set

Resolved(v) == [settled |-> "resolved", value |-> v]

\* (mutant) no try around the body: the error rejects the promise
NoOuterCatch == [settled |-> "rejected", value |-> Null]

\* catch (error) { console.error(...); return null; }
OuterCatch == Resolved(Null)

\* (mutant) no try around the fetch of the lifts page: its error reaches the
\* outer catch
LiftsThrowEscapes(p) == Resolved(Null)

\* catch (liftError) { console.error(...) } and then return { conditions, info }
LiftsCatch(p) == Resolved(p)

ScrapeInit ==
    /\ SeqIdle
    /\ CronIdle
    /\ FamIdle
    /\ CacheIdle
    /\ StoreIdle
    /\ AggIdle
    /\ SeasonIdle
    /\ SyncIdle
    /\ ServiceIdle
    /\ FavIdle
    /\ scrVariant \in Variants
    /\ scrPc = "primary"
    /\ html = <<>>
    /\ liftsHtml = <<>>
    /\ liftsFetch = "none"
    /\ parsed = <<>>
    /\ scrResult = [settled |-> "pending", value |-> Null]

\* if (!response.ok) return null
ScrPrimaryNotOk ==
    /\ scrPc = "primary"
    /\ scrResult' = Resolved(Null)
    /\ scrPc' = "done"
    /\ UNCHANGED <<scrVariant, html, liftsHtml, liftsFetch, parsed>>
    /\ ScrFrame

\* fetch(baseUrl) or response.text() rejected
ScrPrimaryThrows ==
    /\ scrPc = "primary"
    /\ scrResult' = OuterCatch
    /\ scrPc' = "done"
    /\ UNCHANGED <<scrVariant, html, liftsHtml, liftsFetch, parsed>>
    /\ ScrFrame

\* the primary page arrived: parseConditions, parseResortInfo, then the fetch of
\* the lifts page is issued
ScrPrimaryOk ==
    /\ scrPc = "primary"
    /\ \E page \in PrimaryPages :
          /\ html' = <<page>>
          /\ parsed' = <<[conditions |-> parseConditions(page),
                          info |-> parseResortInfo(scrVariant, page)]>>
    /\ scrPc' = "lifts"
    /\ UNCHANGED <<scrVariant, liftsHtml, liftsFetch, scrResult>>
    /\ ScrFrame

\* the lifts page arrived: info = parseLiftDetails(liftsHtml, info)
ScrLiftsOk ==
    /\ scrPc = "lifts"
    /\ \E page \in LiftsPages :
          /\ liftsHtml' = <<page>>
          /\ scrResult' = Resolved(<<[conditions |-> parsed[1].conditions,
                                      info |-> parseLiftDetails(page, parsed[1].info)]>>)
    /\ liftsFetch' = "ok"
    /\ scrPc' = "done"
    /\ UNCHANGED <<scrVariant, html, parsed>>
    /\ ScrFrame

\* liftsResponse.ok is false: parseLiftDetails is not called
ScrLiftsNotOk ==
    /\ scrPc = "lifts"
    /\ liftsFetch' = "non2xx"
    /\ scrResult' = Resolved(parsed)
    /\ scrPc' = "done"
    /\ UNCHANGED <<scrVariant, html, liftsHtml, parsed>>
    /\ ScrFrame

\* fetch(liftsUrl) or liftsResponse.text() rejected
ScrLiftsThrows ==
    /\ scrPc = "lifts"
    /\ liftsFetch' = "threw"
    /\ scrResult' = LiftsCatch(parsed)
    /\ scrPc' = "done"
    /\ UNCHANGED <<scrVariant, html, liftsHtml, parsed>>
    /\ ScrFrame

ScrapeNext ==
    \/ ScrPrimaryNotOk
    \/ ScrPrimaryThrows
    \/ ScrPrimaryOk
    \/ ScrLiftsOk
    \/ ScrLiftsNotOk
    \/ ScrLiftsThrows

SpecScrape == ScrapeInit /\ [][ScrapeNext]_vars

----------------------------------------------------------------------------
(* Properties of scrapeResortConditions                                      *)

\* a page on which none of the regular expressions finds anything
BlankPage ==
    [openPhrase |-> FALSE, liftPair |-> Null, liftLabel |-> Null,
     summitCm |-> Null, runs |-> Null, gondola |-> Null, highSpeed |-> <<>>,
     fixedGrip |-> <<>>, surface |-> Null, carpet |-> Null]

BlankLiftsPage ==
    [gondola |-> Null, chairlift |-> Null, surface |-> Null, carpet |-> Null]

LiftTypeFields == {"liftsGondolas", "liftsChairliftsHighSpeed",
                   "liftsChairliftsFixedGrip", "liftsSurface", "liftsCarpets"}

AllNull(record) == \A f \in DOMAIN record : record[f] = Null

NothingFound(r) ==
    /\ r.conditions.isOpen = FALSE
    /\ AllNull([f \in DOMAIN r.conditions \ {"isOpen"} |-> r.conditions[f]])
    /\ AllNull(r.info)

ScrapeDone == scrPc = "done"
PrimaryObtained == html # <<>>
LiftsFetchFailed == liftsFetch \in {"non2xx", "threw"}

\* C4: scrapeResortConditions never rejects; it resolves to null exactly when
\* the primary page was not obtained, and to a {conditions, info} record
\* otherwise, with every field null and isOpen false when the pages carry
\* nothing the extractions find.
ScrapeNeverRejects ==
    /\ scrResult.settled # "rejected"
    /\ ScrapeDone =>
         /\ scrResult.settled = "resolved"
         /\ scrResult.value = Null <=> ~PrimaryObtained
         /\ PrimaryObtained =>
              /\ DOMAIN scrResult.value[1] = {"conditions", "info"}
              /\ scrResult.value[1].conditions = parseConditions(html[1])
         /\ /\ PrimaryObtained
            /\ html[1] = BlankPage
            /\ liftsHtml \in {<<>>, <<BlankLiftsPage>>}
            => NothingFound(scrResult.value[1])

\* C4 witness: a primary page without any of the texts was obtained, the
\* lifts page could not be fetched, and the record with nothing in it came back
ScrapeNeverRejectsWitness ==
    /\ ScrapeDone
    /\ html = <<BlankPage>>
    /\ liftsFetch = "threw"
    /\ scrResult.settled = "resolved"
    /\ scrResult.value # Null
    /\ NothingFound(scrResult.value[1])

\* C10 as stated: when the fetch of the lifts page fails the primary-page
\* result is returned and its five lift-type counts are all null.
ScrapeLiftsFailureLeavesNull ==
    ScrapeDone /\ LiftsFetchFailed =>
        /\ scrResult.settled = "resolved"
        /\ scrResult.value # Null
        /\ \A f \in LiftTypeFields : scrResult.value[1].info[f] = Null

\* C10 as amended: when the fetch of the lifts page fails the result is what
\* parseConditions and parseResortInfo made of the primary page, unchanged;
\* its five lift-type counts are null in the standalone copy, and in the lib
\* copy each is the count parseResortInfo found on the primary page, null
\* when the primary page has no text for that type.
ScrapeLiftsFailureKeepsPrimary ==
    ScrapeDone /\ LiftsFetchFailed =>
        /\ scrResult.settled = "resolved"
        /\ scrResult.value # Null
        /\ scrResult.value[1].conditions = parseConditions(html[1])
        /\ scrResult.value[1].info.liftsTotal = InfoLiftsTotal(html[1])
        /\ scrResult.value[1].info.runsTotal = html[1].runs
        /\ scrVariant = "standalone" =>
             \A f \in LiftTypeFields : scrResult.value[1].info[f] = Null
        /\ scrVariant = "lib" =>
             /\ scrResult.value[1].info.liftsGondolas = html[1].gondola
             /\ scrResult.value[1].info.liftsChairliftsHighSpeed =
                    SummedCount(html[1].highSpeed)
             /\ scrResult.value[1].info.liftsChairliftsFixedGrip =
                    SummedCount(html[1].fixedGrip)
             /\ scrResult.value[1].info.liftsSurface = html[1].surface
             /\ scrResult.value[1].info.liftsCarpets = html[1].carpet
             /\ /\ html[1].gondola = Null
                /\ SumOf(html[1].highSpeed) = 0
                /\ SumOf(html[1].fixedGrip) = 0
                /\ html[1].surface = Null
                /\ html[1].carpet = Null
                => \A f \in LiftTypeFields : scrResult.value[1].info[f] = Null

\* C10 witness: the lib copy got a primary page that names two gondola lifts,
\* the fetch of the lifts page threw, and the result carries the two gondolas
ScrapeLiftsFailureKeepsPrimaryWitness ==
    /\ ScrapeDone
    /\ scrVariant = "lib"
    /\ liftsFetch = "threw"
    /\ html[1].gondola = <<2>>
    /\ scrResult.value # Null
    /\ scrResult.value[1].info.liftsGondolas = <<2>>
    /\ scrResult.value[1].info.liftsSurface = Null

\* the three sources of info.liftsTotal, as the result and the pages show them
PairTotal(page) ==
    IF page.liftPair # Null THEN <<page.liftPair[1].total>> ELSE Null
ComponentCounts(info) == {info[f] : f \in LiftTypeFields} \ {Null}
ComponentSum(info) ==
    IF ComponentCounts(info) = {}
      THEN Null
      ELSE <<OrZero(info.liftsGondolas) + OrZero(info.liftsChairliftsHighSpeed)
             + OrZero(info.liftsChairliftsFixedGrip) + OrZero(info.liftsSurface)
             + OrZero(info.liftsCarpets)>>

FirstAvailable(a, b, c) == IF a # Null THEN a ELSE IF b # Null THEN b ELSE c

\* C11: info.liftsTotal of a returned result is the first available of the
\* total of the parsed open/total pair, the labelled total and the sum of the
\* lift-type counts; it is null exactly when none of the three is available.
LiftsTotalPrecedence ==
    ScrapeDone /\ PrimaryObtained =>
        scrResult.value[1].info.liftsTotal =
            FirstAvailable(PairTotal(html[1]), html[1].liftLabel,
                           ComponentSum(scrResult.value[1].info))

----------------------------------------------------------------------------
(* Several runs of runFullScrape against the same database: what the runs    *)
(* leave in resort_conditions and resort_info                                *)

StoreFrame == UNCHANGED <<seqVars, cronVars, famVars, cacheVars, scrVars, aggVars, seaVars,
        syncVars, svcVars, favVars>>

Runs == 1..MaxRuns

\* the rows of resorts that every run selects, each resort once
StoreCatalog == <<"r1", "r2">>

\* runs are numbered in the order in which they start
StoreStarts(k) == IF k = 1 THEN TRUE ELSE storeRuns[k - 1].pc # "idle"

\* (mutant) resort_info without the unique constraint: every write adds a row
PlainInsert(rows, resortId, at) ==
    Append(rows, [id |-> Len(rows) + 1, resortId |-> resortId,
                  updatedAt |-> at, writes |-> 1])

\* insert(resortInfo).values({resortId, ...}).onConflictDoUpdate({target:
\* resortInfo.resortId, set: {..., updatedAt: new Date()}}), resort_id being
\* UNIQUE: the row of the resort is rewritten in place, or a first row is added
OnConflictDoUpdate(rows, resortId, at) ==
    IF \E j \in 1..Len(rows) : rows[j].resortId = resortId
      THEN [j \in 1..Len(rows) |->
              IF rows[j].resortId = resortId
                THEN [rows[j] EXCEPT !.updatedAt = at, !.writes = @ + 1]
                ELSE rows[j]]
      ELSE Append(rows, [id |-> Len(rows) + 1, resortId |-> resortId,
                         updatedAt |-> at, writes |-> 1])

\* (mutant) the date is read when the row is written
DateAtInsert(k) == storeDate

\* scrapedDate: today, the date read before the loop
ScrapedDateOf(k) == storeRuns[k].today

StoreInit ==
    /\ SeqIdle
    /\ CronIdle
    /\ FamIdle
    /\ CacheIdle
    /\ ScrapeIdle
    /\ AggIdle
    /\ SeasonIdle
    /\ SyncIdle
    /\ ServiceIdle
    /\ FavIdle
    /\ storeRuns = [k \in Runs |-> [pc |-> "idle", today |-> 0, i |-> 1]]
    /\ conditionsRows = <<>>
    /\ infoRows = <<>>
    /\ storeDate = 0

\* the end of one iteration of the for loop: the next resort, or the summary
StoreAdvance(k) ==
    storeRuns' = [storeRuns EXCEPT ![k] =
                    IF storeRuns[k].i < Len(StoreCatalog)
                      THEN [@ EXCEPT !.i = @ + 1, !.pc = "scrape"]
                      ELSE [@ EXCEPT !.pc = "done"]]

\* the select of resortsToScrape returned; today = new Date().toISOString()
\* .split("T")[0] is taken once, before the loop
StoreStart(k) ==
    /\ storeRuns[k].pc = "idle"
    /\ StoreStarts(k)
    /\ storeRuns' = [storeRuns EXCEPT ![k] =
                       [@ EXCEPT !.pc = "scrape", !.today = storeDate]]
    /\ UNCHANGED <<conditionsRows, infoRows, storeDate>>
    /\ StoreFrame

\* scrapeResortConditions returned null or threw: nothing is written
StoreScrapeFails(k) ==
    /\ storeRuns[k].pc = "scrape"
    /\ StoreAdvance(k)
    /\ UNCHANGED <<conditionsRows, infoRows, storeDate>>
    /\ StoreFrame

StoreScrapeData(k) ==
    /\ storeRuns[k].pc = "scrape"
    /\ storeRuns' = [storeRuns EXCEPT ![k] = [@ EXCEPT !.pc = "insert"]]
    /\ UNCHANGED <<conditionsRows, infoRows, storeDate>>
    /\ StoreFrame

\* db.insert(resortConditions).values({resortId, scrapedDate: today, ...}):
\* resort_conditions has no constraint but its primary key
StoreInsertConditions(k) ==
    /\ storeRuns[k].pc = "insert"
    /\ conditionsRows' = Append(conditionsRows,
                            [id |-> Len(conditionsRows) + 1,
                             resortId |-> StoreCatalog[storeRuns[k].i],
                             scrapedDate |-> ScrapedDateOf(k),
                             run |-> k])
    /\ storeRuns' = [storeRuns EXCEPT ![k] = [@ EXCEPT !.pc = "upsert"]]
    /\ UNCHANGED <<infoRows, storeDate>>
    /\ StoreFrame

StoreInsertConditionsThrows(k) ==
    /\ storeRuns[k].pc = "insert"
    /\ StoreAdvance(k)
    /\ UNCHANGED <<conditionsRows, infoRows, storeDate>>
    /\ StoreFrame

StoreUpsertInfo(k) ==
    /\ storeRuns[k].pc = "upsert"
    /\ infoRows' = OnConflictDoUpdate(infoRows, StoreCatalog[storeRuns[k].i],
                                      storeDate)
    /\ StoreAdvance(k)
    /\ UNCHANGED <<conditionsRows, storeDate>>
    /\ StoreFrame

StoreUpsertInfoThrows(k) ==
    /\ storeRuns[k].pc = "upsert"
    /\ StoreAdvance(k)
    /\ UNCHANGED <<conditionsRows, infoRows, storeDate>>
    /\ StoreFrame

\* midnight passes, for as long as a run is still to start or to finish
StoreTick ==
    /\ \E k \in Runs : storeRuns[k].pc # "done"
    /\ storeDate < MaxDays
    /\ storeDate' = storeDate + 1
    /\ UNCHANGED <<storeRuns, conditionsRows, infoRows>>
    /\ StoreFrame

StoreNext ==
    \/ \E k \in Runs : StoreStart(k)
    \/ \E k \in Runs : StoreScrapeFails(k)
    \/ \E k \in Runs : StoreScrapeData(k)
    \/ \E k \in Runs : StoreInsertConditions(k)
    \/ \E k \in Runs : StoreInsertConditionsThrows(k)
    \/ \E k \in Runs : StoreUpsertInfo(k)
    \/ \E k \in Runs : StoreUpsertInfoThrows(k)
    \/ StoreTick

SpecStore == StoreInit /\ [][StoreNext]_vars

----------------------------------------------------------------------------
(* Properties of the tables the runs write                                   *)

InfoRowPerResort ==
    \A i, j \in 1..Len(infoRows) :
        infoRows[i].resortId = infoRows[j].resortId => i = j

\* a step keeps every info row where it is, with its id and its resort, and
\* adds a row only for a resort that had none
InfoInPlace ==
    /\ Len(infoRows') >= Len(infoRows)
    /\ \A j \in 1..Len(infoRows) :
          /\ infoRows'[j].id = infoRows[j].id
          /\ infoRows'[j].resortId = infoRows[j].resortId
          /\ infoRows'[j].writes >= infoRows[j].writes
    /\ \A j \in (Len(infoRows) + 1)..Len(infoRows') :
          \A i \in 1..Len(infoRows) :
              infoRows[i].resortId # infoRows'[j].resortId

\* C12: however the runs interleave, resort_info holds at most one row per
\* resort, and a write for a resort that has a row rewrites that row in place.
InfoOneRowPerResort == [](InfoRowPerResort) /\ [][InfoInPlace]_vars

\* C12 witness: both resorts have their row and one of them was written twice
InfoOneRowPerResortWitness ==
    /\ Len(infoRows) = Len(StoreCatalog)
    /\ \E j \in 1..Len(infoRows) : infoRows[j].writes = 2

SameKey(a, b) == a.resortId = b.resortId /\ a.scrapedDate = b.scrapedDate

\* C13 as stated: there is at most one conditions row per (resort,
\* scrapedDate), also after two runs on the same date.
ConditionsRowPerDate ==
    \A i, j \in 1..Len(conditionsRows) :
        SameKey(conditionsRows[i], conditionsRows[j]) => i = j

\* C13 as amended: each run writes at most one conditions row per resort, all
\* of them dated with the date on which the run read `today`; so the rows of
\* one (resort, scrapedDate) come from different runs that started on that
\* date, one row each.
ConditionsRowPerRun ==
    /\ \A i \in 1..Len(conditionsRows) :
          conditionsRows[i].scrapedDate = storeRuns[conditionsRows[i].run].today
    /\ \A i, j \in 1..Len(conditionsRows) :
          /\ conditionsRows[i].resortId = conditionsRows[j].resortId
          /\ conditionsRows[i].run = conditionsRows[j].run
          => i = j

\* C13 witness: two runs that started on the same date each wrote a row for
\* the same resort, and a day passed before the second row was written
ConditionsRowPerRunWitness ==
    \E i, j \in 1..Len(conditionsRows) :
        /\ i < j
        /\ SameKey(conditionsRows[i], conditionsRows[j])
        /\ conditionsRows[i].run # conditionsRows[j].run
        /\ storeDate > conditionsRows[j].scrapedDate

----------------------------------------------------------------------------
(* Resorts without an upstream identifier                                    *)

WithoutIdentifier(ids) == {i \in 1..Len(ids) : ids[i] = ""}

\* the sequential run never scrapes a resort without identifier and counts it
\* skipped
SeqSkippedNotFailed ==
    /\ \A i \in WithoutIdentifier(catalog) :
          rstate[i] \in {"Pending", "Skipped"} /\ outcome[i] = "none"
    /\ seqPc = "done" =>
          /\ results.skipped = Cardinality(WithoutIdentifier(catalog))
          /\ results.failed <= Len(catalog) - Cardinality(WithoutIdentifier(catalog))

\* C14: a resort without an upstream identifier is never passed to the scraper
\* and is not counted as failed by the bounded-concurrency handler: only
\* resorts with an identifier can add to failCount.
CronSkippedNotFailed ==
    /\ \A i \in WithoutIdentifier(allResorts) :
          taskState[i] \notin {"scraping", "storing"}
    /\ failCount <= Len(allResorts) - Cardinality(WithoutIdentifier(allResorts))

----------------------------------------------------------------------------
(* Properties of the model slots and of the fan-out                          *)

SettledModels ==
    IF famClient \in {"daily", "hourly"}
      THEN {m \in Models : subState[m] = "settled"}
      ELSE {}

\* C15: every per-model function of the daily and of the hourly client
\* returns a slot and never throws; an unavailable slot has empty data and a
\* non-empty error message, an available slot has no error.
SlotsWellFormed ==
    \A m \in SettledModels :
        /\ ~subResult[m].threw
        /\ LET slot == subResult[m].value[1]
           IN IF slot.available
                THEN slot.error = <<>>
                ELSE /\ slot.data = <<>>
                     /\ slot.error # <<>>
                     /\ slot.error[1] # ""

\* C15 witness: the hourly client got a 500 for one model and an empty time
\* array for another, and data for the third
SlotsWellFormedWitness ==
    /\ famClient = "hourly"
    /\ SettledModels = Models
    /\ upstream["gfs"].kind = "http500"
    /\ upstream["ecmwf"].hourly = <<<<>>>>
    /\ ~subResult["gfs"].value[1].available
    /\ ~subResult["ecmwf"].value[1].available
    /\ subResult["hrrr"].value[1].available
    /\ subResult["hrrr"].value[1].data # <<>>

\* C16: the three callers of Promise.all issue all their sub-requests at the
\* call: once the call is made no sub-request is still to be started, whatever
\* the others do, so none settles while another has not been issued.
FanOutIssuedTogether ==
    famPc # "idle" => \A e \in DOMAIN subState : subState[e] # "idle"

\* C16 witness: one sub-request of the season endpoint hangs while the other
\* two have been answered
FanOutIssuedTogetherWitness ==
    /\ famClient = "season"
    /\ subState["current"] = "inflight"
    /\ subState["lastToDate"] = "settled"
    /\ subState["lastFull"] = "settled"

----------------------------------------------------------------------------
(* aggregateHourlyToDaily over hourly series in any order                    *)

AggFrame == UNCHANGED <<seqVars, cronVars, famVars, cacheVars, scrVars,
                        storeVars, seaVars, syncVars, svcVars, favVars>>

\* the date part of times[i], times[i].split("T")[0]
AggDates == {1, 2}

\* values[i]: null or a snowfall in tenths of a cm
AggValues == {<<>>, <<5>>, <<10>>}

\* times[] / values[] of any length up to the bound, the dates in any order
AggInputs ==
    UNION {[1..k -> [date : AggDates, value : AggValues]] :
             k \in 0..MaxAggSamples}

AggInit ==
    /\ SeqIdle
    /\ CronIdle
    /\ FamIdle
    /\ CacheIdle
    /\ ScrapeIdle
    /\ StoreIdle
    /\ SeasonIdle
    /\ SyncIdle
    /\ ServiceIdle
    /\ FavIdle
    /\ aggInput \in AggInputs
    /\ aggPc = "input"
    /\ aggResult = <<>>

\* aggregateHourlyToDaily(times, values)
AggApply ==
    /\ aggPc = "input"
    /\ aggResult' = <<aggregateHourlyToDaily(aggInput)>>
    /\ aggPc' = "done"
    /\ UNCHANGED aggInput
    /\ AggFrame

AggNext == AggApply

SpecAgg == AggInit /\ [][AggNext]_vars

\* the distinct calendar dates among the timestamps
InputDates(samples) == {samples[i].date : i \in 1..Len(samples)}

\* the sum of the values at the indices I, null counted as 0
RECURSIVE SumOver(_, _)
SumOver(samples, I) ==
    IF I = {} THEN 0
    ELSE LET i == CHOOSE j \in I : TRUE
         IN OrZero(samples[i].value) + SumOver(samples, I \ {i})

DateTotal(samples, d) ==
    SumOver(samples, {i \in 1..Len(samples) : samples[i].date = d})

Buckets(out) == {out[k] : k \in 1..Len(out)}

Orderings(n) ==
    {p \in [1..n -> 1..n] : \A i, j \in 1..n : p[i] = p[j] => i = j}

Permuted(samples, p) == [i \in 1..Len(samples) |-> samples[p[i]]]

\* C17: aggregateHourlyToDaily returns exactly one bucket per distinct date of
\* the input, carrying the sum of that date's values with null counted as 0
\* (converted to inches), for any number of samples per date; permuting the
\* input changes neither the set of dates nor any date's total.
AggOneBucketPerDate ==
    aggPc = "done" =>
        LET out == aggResult[1]
        IN /\ Len(out) = Cardinality(InputDates(aggInput))
           /\ {out[k].date : k \in 1..Len(out)} = InputDates(aggInput)
           /\ \A k \in 1..Len(out) :
                 out[k].snowfallInches =
                     RoundedInches(DateTotal(aggInput, out[k].date))
           /\ \A p \in Orderings(Len(aggInput)) :
                 Buckets(aggregateHourlyToDaily(Permuted(aggInput, p)))
                     = Buckets(out)

\* C17 witness: four samples, three of one date around one of another, one of
\* them null
AggOneBucketPerDateWitness ==
    /\ aggPc = "done"
    /\ aggInput = <<[date |-> 1, value |-> <<10>>], [date |-> 2, value |-> <<5>>],
                    [date |-> 1, value |-> <<>>], [date |-> 1, value |-> <<5>>]>>
    /\ Len(aggResult[1]) = 2
    /\ aggResult[1][1] = [date |-> 1, snowfallInches |-> RoundedInches(15)]

----------------------------------------------------------------------------
(* season-snowfall GET: the season year, the three date ranges, the percent  *)
(* Dates are day numbers of the proleptic Gregorian calendar; months are     *)
(* numbered from 0 as Date does.                                             *)

SeaFrame == UNCHANGED <<seqVars, cronVars, famVars, cacheVars, scrVars,
                        storeVars, aggVars, syncVars, svcVars, favVars>>

IsLeapYear(y) == (y % 4 = 0 /\ y % 100 # 0) \/ y % 400 = 0

MonthLengths(y) ==
    <<31, IF IsLeapYear(y) THEN 29 ELSE 28, 31, 30, 31, 30, 31, 31, 30, 31, 30, 31>>

DaysBeforeYear(y) ==
    365 * (y - 1) + ((y - 1) \div 4) - ((y - 1) \div 100) + ((y - 1) \div 400)

RECURSIVE DaysBeforeMonth(_, _)
DaysBeforeMonth(y, m) ==
    IF m = 0 THEN 0 ELSE MonthLengths(y)[m] + DaysBeforeMonth(y, m - 1)

\* new Date(year, month, day), at midnight
NewDate(y, m, d) == DaysBeforeYear(y) + DaysBeforeMonth(y, m) + (d - 1)

\* Date.getFullYear()
getFullYear(n) ==
    CHOOSE y \in (n \div 366)..((n \div 365) + 1) :
        NewDate(y, 0, 1) <= n /\ n < NewDate(y + 1, 0, 1)

\* Date.getMonth()
getMonth(n) ==
    LET y == getFullYear(n)
    IN CHOOSE m \in 0..11 :
          /\ NewDate(y, m, 1) <= n
          /\ n < NewDate(y, m, 1) + MonthLengths(y)[m + 1]

\* the days on which a request can arrive
ClockDays == NewDate(2023, 0, 1)..(NewDate(2023 + MaxYears, 0, 1) - 1)

\* getSeasonDates(year): Nov 1 of the year to Apr 30 of the next
getSeasonDates(year) ==
    [start |-> NewDate(year, 10, 1), end |-> NewDate(year + 1, 3, 30)]

\* (mutant) the season year is always the calendar year
CalendarYear(clock) == getFullYear(clock)

\* getCurrentSeasonYear(), clock being the value of its own new Date()
getCurrentSeasonYear(clock) ==
    IF getMonth(clock) >= 10 THEN getFullYear(clock) ELSE getFullYear(clock) - 1

\* Math.max(0, Math.floor((today - seasonStart) / one day))
DaysIntoSeason(t, seasonStart) ==
    IF t - seasonStart > 0 THEN t - seasonStart ELSE 0

\* toCumulativePoints: dayOfSeason of a daily entry
dayOfSeason(dayDate, seasonStart) == dayDate - seasonStart

\* a JavaScript number: finite, NaN or Infinity
Finite(n) == [kind |-> "finite", value |-> n]
NaN == [kind |-> "NaN", value |-> 0]
Infinity == [kind |-> "Infinity", value |-> 0]

\* Math.round((currentTotal / lastSeasonToDateTotal) * 100), the totals in
\* tenths of an inch and not negative; Math.round rounds halves up
JsRoundedRatio(cur, last) ==
    IF last = 0
      THEN IF cur = 0 THEN NaN ELSE Infinity
      ELSE Finite((200 * cur + last) \div (2 * last))

\* (mutant) the percentage without the guard on the divisor
PercentUnguarded(cur, last) == JsRoundedRatio(cur, last)

\* lastSeasonToDateTotal > 0 ? Math.round(...) : 0
percentOfLastSeason(cur, last) ==
    IF last > 0 THEN JsRoundedRatio(cur, last) ELSE Finite(0)

SeasonInit ==
    /\ SeqIdle
    /\ CronIdle
    /\ FamIdle
    /\ CacheIdle
    /\ ScrapeIdle
    /\ StoreIdle
    /\ AggIdle
    /\ SyncIdle
    /\ ServiceIdle
    /\ FavIdle
    /\ seaPc = "start"
    /\ today \in ClockDays
    /\ season = <<>>
    /\ seasonTotals = <<>>
    /\ seasonResponse = <<>>

\* from `const today = new Date()` to the three ranges; getCurrentSeasonYear
\* reads the clock again, no earlier than today was read
SeasonComputeRanges ==
    /\ seaPc = "start"
    /\ \E clock \in {today, today + 1} :
          LET currentSeasonYear == getCurrentSeasonYear(clock)
              currentSeason == getSeasonDates(currentSeasonYear)
              lastSeason == getSeasonDates(currentSeasonYear - 1)
              daysIntoSeason == DaysIntoSeason(today, currentSeason.start)
          IN season' = <<[seasonNow |-> clock,
                          currentSeasonYear |-> currentSeasonYear,
                          currentSeason |-> currentSeason,
                          lastSeason |-> lastSeason,
                          daysIntoSeason |-> daysIntoSeason,
                          lastSeasonEquivalentEnd |->
                              lastSeason.start + daysIntoSeason,
                          currentSeasonEnd |->
                              IF today < currentSeason.end
                                THEN today ELSE currentSeason.end]>>
    /\ seaPc' = "fetch"
    /\ UNCHANGED <<today, seasonTotals, seasonResponse>>
    /\ SeaFrame

\* the three series arrive; the totals are the last cumulativeInches, or 0
SeasonFetched ==
    /\ seaPc = "fetch"
    /\ \E cur \in 0..MaxTotal, last \in 0..MaxTotal :
          /\ seasonTotals' = <<[currentTotal |-> cur,
                                lastSeasonToDateTotal |-> last]>>
          /\ seasonResponse' =
                 <<[status |-> 200,
                    percentOfLastSeason |-> percentOfLastSeason(cur, last)]>>
    /\ seaPc' = "done"
    /\ UNCHANGED <<today, season>>
    /\ SeaFrame

\* one of the three fetches throws: catch, status 500
SeasonFetchFails ==
    /\ seaPc = "fetch"
    /\ seasonResponse' = <<[status |-> 500]>>
    /\ seaPc' = "done"
    /\ UNCHANGED <<today, season, seasonTotals>>
    /\ SeaFrame

SeasonNext ==
    \/ SeasonComputeRanges
    \/ SeasonFetched
    \/ SeasonFetchFails

SpecSeason == SeasonInit /\ [][SeasonNext]_vars

----------------------------------------------------------------------------
(* Properties of the season-snowfall GET                                     *)

SeasonAnswered == seaPc = "done" /\ seasonResponse[1].status = 200

\* C18: percentOfLastSeason is 0 whenever the last-season-to-date total is 0
\* and the current total divided by it, times 100, rounded, otherwise; it is
\* never NaN or infinite for totals that are not negative.
PercentFiniteAndRounded ==
    SeasonAnswered =>
        LET cur == seasonTotals[1].currentTotal
            last == seasonTotals[1].lastSeasonToDateTotal
            p == seasonResponse[1].percentOfLastSeason
        IN /\ p.kind = "finite"
           /\ last = 0 => p.value = 0
           /\ last > 0 =>
                /\ -last <= 2 * (100 * cur - p.value * last)
                /\ 2 * (100 * cur - p.value * last) < last

\* C18 witness: snow this season and none by this day last season
PercentFiniteAndRoundedWitness ==
    /\ SeasonAnswered
    /\ seasonTotals[1].currentTotal = 2
    /\ seasonTotals[1].lastSeasonToDateTotal = 0
    /\ seasonResponse[1].percentOfLastSeason = Finite(0)

\* the same with a total to divide by: 2 over 3 is 67 percent
PercentRoundedWitness ==
    /\ SeasonAnswered
    /\ seasonTotals[1].currentTotal = 2
    /\ seasonTotals[1].lastSeasonToDateTotal = 3
    /\ seasonResponse[1].percentOfLastSeason = Finite(67)

SeasonOpensWitness ==
    /\ season # <<>>
    /\ today = NewDate(2024, 10, 1)
    /\ season[1].currentSeasonYear = 2024
    /\ season[1].daysIntoSeason = 0

\* the day offset at which each to-date range ends, counted as dayOfSeason
CurrentEndOffset ==
    dayOfSeason(season[1].currentSeasonEnd, season[1].currentSeason.start)

LastToDateEndOffset ==
    dayOfSeason(season[1].lastSeasonEquivalentEnd, season[1].lastSeason.start)

\* C20: for every date today, in season or after the Apr 30 end, the
\* last-season-to-date range ends at the same day offset from last season's
\* Nov 1 as the current-season range ends from this season's Nov 1.
ToDateRangesSameOffset ==
    season # <<>> => LastToDateEndOffset = CurrentEndOffset

\* up to the Apr 30 end the two offsets are the same, 30 for Dec 1
InSeasonSameOffset ==
    (/\ season # <<>>
     /\ season[1].seasonNow = today
     /\ today <= season[1].currentSeason.end)
        => /\ LastToDateEndOffset = CurrentEndOffset
           /\ today = NewDate(getFullYear(today), 11, 1) => CurrentEndOffset = 30

\* a request on Jul 1 2024: the current range stops at Apr 30, day 181, the
\* last-season-to-date range runs on to day 243
OffSeasonOffsetsDiffer ==
    /\ season # <<>>
    /\ today = NewDate(2024, 6, 1)
    /\ season[1].seasonNow = today
    /\ CurrentEndOffset = 181
    /\ LastToDateEndOffset = 243

----------------------------------------------------------------------------
(* Properties of the endpoints when the upstream fails                       *)

\* C21: when the upstream request of the forecast endpoint fails, the request
\* is answered with a success response (series missing), not with an error
\* status: the failure does not leave the weather client as an exception.
UpstreamFailureDegrades ==
    [][\A r \in Requests :
          (req[r].pc = "fetching" /\ req'[r].pc = "done")
              => req'[r].resp[1].status = 200]_vars

\* a forecast request missed the cache, the upstream call failed, and the
\* request was answered 503 without a snapshot
UpstreamFailureAnswersError ==
    \E r \in Requests :
        /\ req[r].pc = "done"
        /\ req[r].path = "forecast"
        /\ req[r].fetches = 1
        /\ req[r].inserts = 0
        /\ req[r].resp[1].status = 503

----------------------------------------------------------------------------
(* Snow-depth sync: runFullSync runs against the snow_depth_readings table   *)

SyncFrame == UNCHANGED <<seqVars, cronVars, famVars, cacheVars, scrVars,
                         storeVars, aggVars, seaVars, svcVars, favVars>>

\* the resorts selected by isNotNull(latitude): coordinates that parse, a
\* blank longitude, a latitude that parses to NaN; covered by SNOTEL or not
SyncCatalog ==
    <<[id |-> "r1", coords |-> "ok", snotelCoverage |-> TRUE],
      [id |-> "r2", coords |-> "blank", snotelCoverage |-> FALSE],
      [id |-> "r3", coords |-> "nan", snotelCoverage |-> TRUE],
      [id |-> "r4", coords |-> "ok", snotelCoverage |-> FALSE]>>

\* what fetchSnotelSnowDepth resolves to: null or a station's snowDepthInches
SnotelDepths == {<<>>, <<0>>, <<7>>}

\* what fetchOpenMeteoSnowDepth resolves to: null or a depth, in centimetres
OpenMeteoDepths == {<<>>, <<0>>, <<1>>, <<20>>}

\* Math.round(depthMeters * METERS_TO_INCHES)
MetersToInches(cm) == (cm * 393701 + 500000) \div 1000000

\* getSnowDepthFallback: SNOTEL first where covered, then Open-Meteo, a depth
\* counting only if it is positive; <<>> stands for null
getSnowDepthFallback(coverage, snotel, meteo) ==
    IF coverage /\ snotel # <<>> /\ snotel[1] > 0
      THEN <<[depthInches |-> snotel[1], source |-> "snotel"]>>
    ELSE IF meteo # <<>> /\ meteo[1] > 0 /\ MetersToInches(meteo[1]) > 0
      THEN <<[depthInches |-> MetersToInches(meteo[1]), source |-> "open-meteo"]>>
    ELSE <<>>

\* (mutant) a conflicting insert is dropped: the first reading is kept
SyncOnConflictDoNothing(rows, resortId, depth) ==
    IF \E j \in 1..Len(rows) : rows[j].resortId = resortId
      THEN rows
      ELSE Append(rows, [id |-> Len(rows) + 1, resortId |-> resortId,
                         depthInches |-> depth.depthInches,
                         source |-> depth.source, writes |-> 1])

\* insert(snowDepthReadings).values({...}).onConflictDoUpdate({target:
\* snowDepthReadings.resortId, set: {depthInches, source, sourceDetail,
\* fetchedAt}}); writes counts the times fetchedAt was set
SyncOnConflictDoUpdate(rows, resortId, depth) ==
    IF \E j \in 1..Len(rows) : rows[j].resortId = resortId
      THEN [j \in 1..Len(rows) |->
              IF rows[j].resortId = resortId
                THEN [rows[j] EXCEPT !.depthInches = depth.depthInches,
                                     !.source = depth.source,
                                     !.writes = @ + 1]
                ELSE rows[j]]
      ELSE Append(rows, [id |-> Len(rows) + 1, resortId |-> resortId,
                         depthInches |-> depth.depthInches,
                         source |-> depth.source, writes |-> 1])

SyncInit ==
    /\ SeqIdle
    /\ CronIdle
    /\ FamIdle
    /\ CacheIdle
    /\ ScrapeIdle
    /\ StoreIdle
    /\ AggIdle
    /\ SeasonIdle
    /\ ServiceIdle
    /\ FavIdle
    /\ syncRuns = <<>>
    /\ snowDepthReadings = <<>>

SyncRunning(k) == k \in 1..Len(syncRuns) /\ syncRuns[k].pc = "loop"

SyncCurrent(k) == SyncCatalog[syncRuns[k].i]

\* results.<counter>++; continue (or the end of the loop body)
SyncCount(k, counter) ==
    [syncRuns EXCEPT ![k] =
        [@ EXCEPT !.results = [@ EXCEPT ![counter] = @ + 1],
                  !.i = @ + 1, !.pc = "loop", !.depth = <<>>]]

\* a request for a full sync arrives: the select of allResorts, results zeroed
SyncStart ==
    /\ Len(syncRuns) < MaxRuns
    /\ syncRuns' = Append(syncRuns,
                     [pc |-> "loop", i |-> 1, depth |-> <<>>,
                      results |-> [total |-> Len(SyncCatalog), success |-> 0,
                                   failed |-> 0, skipped |-> 0]])
    /\ UNCHANGED snowDepthReadings
    /\ SyncFrame

\* if (!resort.latitude || !resort.longitude) { skipped++; continue; }
SyncSkipNoCoordinates(k) ==
    /\ SyncRunning(k)
    /\ syncRuns[k].i <= Len(SyncCatalog)
    /\ SyncCurrent(k).coords = "blank"
    /\ syncRuns' = SyncCount(k, "skipped")
    /\ UNCHANGED snowDepthReadings
    /\ SyncFrame

\* if (isNaN(lat) || isNaN(lng)) { skipped++; continue; }
SyncSkipNaN(k) ==
    /\ SyncRunning(k)
    /\ syncRuns[k].i <= Len(SyncCatalog)
    /\ SyncCurrent(k).coords = "nan"
    /\ syncRuns' = SyncCount(k, "skipped")
    /\ UNCHANGED snowDepthReadings
    /\ SyncFrame

\* getSnowDepthFallback resolved null: if (!depth) { skipped++; continue; }
SyncNoDepth(k) ==
    /\ SyncRunning(k)
    /\ syncRuns[k].i <= Len(SyncCatalog)
    /\ SyncCurrent(k).coords = "ok"
    /\ \E snotel \in SnotelDepths, meteo \in OpenMeteoDepths :
          getSnowDepthFallback(SyncCurrent(k).snotelCoverage, snotel, meteo) = <<>>
    /\ syncRuns' = SyncCount(k, "skipped")
    /\ UNCHANGED snowDepthReadings
    /\ SyncFrame

\* getSnowDepthFallback resolved a depth: the upsert is issued
SyncDepthResolved(k) ==
    /\ SyncRunning(k)
    /\ syncRuns[k].i <= Len(SyncCatalog)
    /\ SyncCurrent(k).coords = "ok"
    /\ \E snotel \in SnotelDepths, meteo \in OpenMeteoDepths :
          LET depth == getSnowDepthFallback(SyncCurrent(k).snotelCoverage,
                                            snotel, meteo)
          IN /\ depth # <<>>
             /\ syncRuns' = [syncRuns EXCEPT ![k] =
                               [@ EXCEPT !.pc = "upserting", !.depth = depth]]
    /\ UNCHANGED snowDepthReadings
    /\ SyncFrame

\* the upsert returned: results.success++, then the 200 ms pause
SyncUpsert(k) ==
    /\ k \in 1..Len(syncRuns)
    /\ syncRuns[k].pc = "upserting"
    /\ snowDepthReadings' = SyncOnConflictDoUpdate(snowDepthReadings,
                                SyncCurrent(k).id, syncRuns[k].depth[1])
    /\ syncRuns' = SyncCount(k, "success")
    /\ SyncFrame

\* the upsert threw: catch { results.failed++; errors.push(...) }
SyncUpsertThrows(k) ==
    /\ k \in 1..Len(syncRuns)
    /\ syncRuns[k].pc = "upserting"
    /\ syncRuns' = SyncCount(k, "failed")
    /\ UNCHANGED snowDepthReadings
    /\ SyncFrame

\* the loop is over: return results
SyncReturn(k) ==
    /\ SyncRunning(k)
    /\ syncRuns[k].i > Len(SyncCatalog)
    /\ syncRuns' = [syncRuns EXCEPT ![k] = [@ EXCEPT !.pc = "done"]]
    /\ UNCHANGED snowDepthReadings
    /\ SyncFrame

SyncNext ==
    \/ SyncStart
    \/ \E k \in Runs : SyncSkipNoCoordinates(k)
    \/ \E k \in Runs : SyncSkipNaN(k)
    \/ \E k \in Runs : SyncNoDepth(k)
    \/ \E k \in Runs : SyncDepthResolved(k)
    \/ \E k \in Runs : SyncUpsert(k)
    \/ \E k \in Runs : SyncUpsertThrows(k)
    \/ \E k \in Runs : SyncReturn(k)

SpecSync == SyncInit /\ [][SyncNext]_vars

----------------------------------------------------------------------------
(* Properties of the snow-depth sync                                         *)

ReadingsOf(rows, resortId) ==
    {j \in 1..Len(rows) : rows[j].resortId = resortId}

\* run k counted its resort skipped in this step
SyncSkipsNow(k) ==
    /\ k \in 1..Len(syncRuns)
    /\ Len(syncRuns') = Len(syncRuns)
    /\ syncRuns'[k].results.skipped = syncRuns[k].results.skipped + 1

\* the upsert of run k returned in this step
SyncStoresNow(k) ==
    /\ k \in 1..Len(syncRuns)
    /\ Len(syncRuns') = Len(syncRuns)
    /\ syncRuns'[k].results.success = syncRuns[k].results.success + 1

\* the table after the step holds the depth run k resolved, in the one row of
\* the resort, which is the row it had before if it had one; no other row
\* changes
ReadingReplacedInPlace(k) ==
    LET r == SyncCurrent(k).id
        d == syncRuns[k].depth[1]
    IN /\ Cardinality(ReadingsOf(snowDepthReadings', r)) = 1
       /\ \A j \in ReadingsOf(snowDepthReadings', r) :
             /\ snowDepthReadings'[j].depthInches = d.depthInches
             /\ snowDepthReadings'[j].source = d.source
             /\ d.depthInches > 0
       /\ \A j \in 1..Len(snowDepthReadings) :
             /\ snowDepthReadings'[j].id = snowDepthReadings[j].id
             /\ snowDepthReadings'[j].resortId = snowDepthReadings[j].resortId
             /\ snowDepthReadings[j].resortId # r
                   => snowDepthReadings'[j] = snowDepthReadings[j]

----------------------------------------------------------------------------
(* Properties of the snapshot cache under concurrent requests                *)

Ok(r) == r \in Answered /\ req[r].resp[1].status = 200

\* the upstream result a 200 answer was built from
Served(r) == forecastSnapshots[req[r].resp[1].snap].rawData

\* C23: two requests of one key that both miss the cache return the same
\* payload, and every later request within the TTL returns that payload too.
SamePayloadWithinTtl ==
    \A r1, r2 \in Requests :
        (/\ r1 < r2
         /\ Ok(r1) /\ Ok(r2)
         /\ ~req[r1].hit
         /\ req[r2].t < req[r1].expiresAt)
            => Served(r2) = Served(r1)

\* two requests missed together and each answered with its own fetch
ConcurrentMissesDiffer ==
    /\ Ok(1) /\ Ok(2)
    /\ ~req[1].hit /\ ~req[2].hit
    /\ req[1].t = req[2].t
    /\ Served(1) # Served(2)
    /\ Len(forecastSnapshots) = 2

\* C24: a snapshot is stored only for a successful upstream fetch, so that a
\* failed result is never served from the cache.
SnapshotOnlyOfSuccess ==
    /\ \A id \in 1..Len(forecastSnapshots) : forecastSnapshots[id].available
    /\ \A r \in Requests :
          (Ok(r) /\ req[r].hit) => forecastSnapshots[req[r].snap].available

\* a chart request is answered from the cache with a result in which every
\* model slot is unavailable
FailedResultServedFromCache ==
    \E r \in Requests :
        /\ Ok(r)
        /\ req[r].hit
        /\ req[r].path = "chart"
        /\ ~forecastSnapshots[req[r].snap].available

\* C25: when several unexpired snapshots of a key exist, the read path serves
\* the most recently fetched one.
ServesNewestSnapshot ==
    [][\A r \in Requests :
          (req[r].pc = "new" /\ req'[r].hit)
              => \A id \in Matching(req[r].path, cacheNow) :
                    id = req'[r].snap \/ FetchedBefore(id, req'[r].snap)]_vars

\* a request is answered from the older of two unexpired snapshots
OlderSnapshotServed ==
    \E r \in Requests :
        /\ Ok(r)
        /\ req[r].hit
        /\ req[r].snap = 1
        /\ forecastSnapshots[2].model = ModelOf(req[r].path)
        /\ forecastSnapshots[2].fetchedAt <= req[r].t
        /\ forecastSnapshots[2].expiresAt > req[r].t

\* C26: every snapshot the forecast read path can select has its hourly and
\* daily rows stored, and no forecast request returns a snapshot without them.
SelectableSnapshotHasRows ==
    /\ \A id \in Matching("forecast", cacheNow) :
          id \in hourlyForecasts /\ id \in dailyForecasts
    /\ \A r \in Requests :
          (Ok(r) /\ req[r].path = "forecast")
              => req[r].resp[1].hourly /\ req[r].resp[1].daily

\* a forecast request found the snapshot another request had just inserted
\* and answered 200 without rows; the other request then stored them
AnsweredWithoutRows ==
    /\ Ok(2)
    /\ req[2].hit
    /\ ~req[2].resp[1].hourly
    /\ ~req[2].resp[1].daily
    /\ Ok(1)
    /\ req[1].resp[1].hourly

\* the child insert of a miss failed and a later request is answered from
\* its snapshot, which never gets its rows
OrphanSnapshotServed ==
    /\ req[1].pc = "done"
    /\ req[1].resp[1].status = 500
    /\ req[1].inserts = 1
    /\ Ok(2)
    /\ req[2].hit
    /\ ~req[2].resp[1].hourly

----------------------------------------------------------------------------
(* The two writes of one resort in a sequential run                          *)

ConditionsOf(r) ==
    {j \in 1..Len(conditionsTable) : conditionsTable[j].resortId = r}

\* C27: in a sequential run the conditions insert and the info upsert of a
\* resort take effect together or not at all: a resort counted failed has no
\* row written by the run, a resort counted success has both.
SeqWritesTogether ==
    \A r \in Resorts :
        /\ rstate[r] = "Failed" => ConditionsOf(r) = {} /\ r \notin DOMAIN infoTable
        /\ rstate[r] = "Stored" => ConditionsOf(r) # {} /\ r \in DOMAIN infoTable

\* the run returned with a resort counted failed whose conditions row is
\* stored and whose info row is not
SeqConditionsWithoutInfo ==
    /\ seqPc = "done"
    /\ \E r \in Resorts :
          /\ rstate[r] = "Failed"
          /\ outcome[r] = "upsertThrew"
          /\ ConditionsOf(r) # {}
          /\ r \notin DOMAIN infoTable
          /\ results.failed >= 1

----------------------------------------------------------------------------
(* Scraper service: triggers arriving while earlier ones are in progress     *)

SvcFrame == UNCHANGED <<seqVars, cronVars, famVars, cacheVars, scrVars,
                        storeVars, aggVars, seaVars, syncVars, favVars>>

\* the resorts selected by isNotNull(skiresortinfoId)
ServiceResorts == <<"a", "b", "c">>

\* POST /api/scrape and GET /api/cron/scrape ("full"), POST
\* /api/scrape/:skiresortinfoId ("single")
TriggerKinds == {"full", "single"}

\* the tasks of a trigger in state st
TasksIn(tr, st) == {i \in 1..Len(tr.tasks) : tr.tasks[i] = st}

\* p-limit of one trigger: the tasks holding a slot
ActiveOf(tr) ==
    TasksIn(tr, "sleeping") \cup TasksIn(tr, "scraping") \cup TasksIn(tr, "storing")

\* limit(fn) at the map: a task starts while fewer than CONCURRENCY are active,
\* the first one (index 0) calls the scraper at once, the others sleep first
TaskAtMap(i) ==
    IF i = 1 THEN "scraping"
    ELSE IF i <= CONCURRENCY THEN "sleeping"
    ELSE "queued"

\* p-limit's next(): a slot was released, the first queued task starts
\* (its index is > 0, so it sleeps first)
ReleaseSlot(tasks) ==
    IF \E i \in 1..Len(tasks) : tasks[i] = "queued"
      THEN LET first == CHOOSE i \in 1..Len(tasks) :
                           /\ tasks[i] = "queued"
                           /\ \A j \in 1..(i - 1) : tasks[j] # "queued"
           IN [tasks EXCEPT ![first] = "sleeping"]
      ELSE tasks

ServiceInit ==
    /\ SeqIdle
    /\ CronIdle
    /\ FamIdle
    /\ CacheIdle
    /\ ScrapeIdle
    /\ StoreIdle
    /\ AggIdle
    /\ SeasonIdle
    /\ SyncIdle
    /\ FavIdle
    /\ triggers = <<>>

\* a full-scrape trigger arrives: const limit = pLimit(CONCURRENCY) of its own,
\* and allResorts.map(... limit(...))
SvcTriggerFull ==
    /\ Len(triggers) < MaxTriggers
    /\ triggers' = Append(triggers,
                     [kind |-> "full",
                      tasks |-> [i \in 1..Len(ServiceResorts) |-> TaskAtMap(i)]])
    /\ SvcFrame

\* a single-resort trigger arrives: scrapeAndStore(resort) without a limiter
SvcTriggerSingle ==
    /\ Len(triggers) < MaxTriggers
    /\ triggers' = Append(triggers, [kind |-> "single", tasks |-> <<"scraping">>])
    /\ SvcFrame

SvcTask(t, i, st) ==
    /\ t \in 1..Len(triggers)
    /\ i \in 1..Len(triggers[t].tasks)
    /\ triggers[t].tasks[i] = st

\* sleep(DELAY_MS) is over: the task calls scrapeAndStore
SvcWake(t, i) ==
    /\ SvcTask(t, i, "sleeping")
    /\ triggers' = [triggers EXCEPT ![t].tasks[i] = "scraping"]
    /\ SvcFrame

\* scrapeResort returned data: the insert into resort_operations is issued
SvcScrapeData(t, i) ==
    /\ SvcTask(t, i, "scraping")
    /\ triggers' = [triggers EXCEPT ![t].tasks[i] = "storing"]
    /\ SvcFrame

\* scrapeResort returned null: failCount++, the slot is released
SvcScrapeNull(t, i) ==
    /\ SvcTask(t, i, "scraping")
    /\ triggers' = [triggers EXCEPT ![t].tasks =
                      ReleaseSlot([@ EXCEPT ![i] = "failed"])]
    /\ SvcFrame

\* the insert returned: successCount++, the slot is released
SvcStored(t, i) ==
    /\ SvcTask(t, i, "storing")
    /\ triggers' = [triggers EXCEPT ![t].tasks =
                      ReleaseSlot([@ EXCEPT ![i] = "succeeded"])]
    /\ SvcFrame

\* the insert threw: the task rejects, the slot is released
SvcStoreThrows(t, i) ==
    /\ SvcTask(t, i, "storing")
    /\ triggers' = [triggers EXCEPT ![t].tasks =
                      ReleaseSlot([@ EXCEPT ![i] = "rejected"])]
    /\ SvcFrame

Triggers == 1..MaxTriggers
TaskIndices == 1..Len(ServiceResorts)

ServiceNext ==
    \/ SvcTriggerFull
    \/ SvcTriggerSingle
    \/ \E t \in Triggers, i \in TaskIndices : SvcWake(t, i)
    \/ \E t \in Triggers, i \in TaskIndices : SvcScrapeData(t, i)
    \/ \E t \in Triggers, i \in TaskIndices : SvcScrapeNull(t, i)
    \/ \E t \in Triggers, i \in TaskIndices : SvcStored(t, i)
    \/ \E t \in Triggers, i \in TaskIndices : SvcStoreThrows(t, i)

SpecService == ServiceInit /\ [][ServiceNext]_vars

\* the scrapes in flight against the upstream host, over all triggers
ScrapesInFlight ==
    {<<t, i>> \in Triggers \X TaskIndices : SvcTask(t, i, "scraping")}

\* within one trigger the limiter holds
PerTriggerBound ==
    \A t \in 1..Len(triggers) :
        Cardinality(ActiveOf(triggers[t])) <= CONCURRENCY

\* C28: the bound of 2 in-flight scrapes holds for the service as a whole,
\* also when a trigger arrives while an earlier run is in progress.
ServiceWideBound == Cardinality(ScrapesInFlight) <= CONCURRENCY

\* two full scrapes overlap and four scrapes are in flight
FourScrapesInFlight ==
    /\ Len(triggers) = 2
    /\ triggers[1].kind = "full"
    /\ triggers[2].kind = "full"
    /\ Cardinality(ScrapesInFlight) = 4

\* a single-resort trigger adds a third scrape to a full run's two
SingleTriggerExceedsBound ==
    /\ Len(triggers) = 2
    /\ triggers[1].kind = "full"
    /\ triggers[2].kind = "single"
    /\ Cardinality(ScrapesInFlight) = 3

----------------------------------------------------------------------------
(* Favorite toggle: POST requests of one user for one resort                 *)

FavFrame == UNCHANGED <<seqVars, cronVars, famVars, cacheVars, scrVars,
                        storeVars, aggVars, seaVars, syncVars, svcVars>>

\* the user's favorites rows for the resort before the requests: none or one
\* (unique_user_resort allows no more)
InitialFavorites == {{}, {1}}

NewToggle(initial) ==
    [pc |-> "new", initial |-> initial, existingFavorite |-> <<>>, resp |-> <<>>]

FavInit ==
    /\ SeqIdle
    /\ CronIdle
    /\ FamIdle
    /\ CacheIdle
    /\ ScrapeIdle
    /\ StoreIdle
    /\ AggIdle
    /\ SeasonIdle
    /\ SyncIdle
    /\ ServiceIdle
    /\ favorites \in InitialFavorites
    /\ favNextId = Cardinality(favorites) + 1
    /\ \E n \in 1..MaxToggles :
          favReq = [r \in 1..n |-> NewToggle(favorites # {})]

FavAt(r, pc) == r \in 1..Len(favReq) /\ favReq[r].pc = pc

\* const [existingFavorite] = await db.select({id}).from(favorites)
\*     .where(and(eq(userId), eq(resortId))).limit(1)
FavSelect(r) ==
    /\ FavAt(r, "new")
    /\ favReq' = [favReq EXCEPT ![r] =
                    [@ EXCEPT !.pc = "selected",
                              !.existingFavorite =
                                  IF favorites = {} THEN <<>>
                                  ELSE <<CHOOSE id \in favorites : TRUE>>]]
    /\ UNCHANGED <<favorites, favNextId>>
    /\ FavFrame

\* if (existingFavorite): delete where id = existingFavorite.id (of however
\* many rows), then {favorited: false}
FavDelete(r) ==
    /\ FavAt(r, "selected")
    /\ favReq[r].existingFavorite # <<>>
    /\ favorites' = favorites \ {favReq[r].existingFavorite[1]}
    /\ favReq' = [favReq EXCEPT ![r] =
                    [@ EXCEPT !.pc = "done",
                              !.resp = <<[status |-> 200, favorited |-> FALSE]>>]]
    /\ UNCHANGED favNextId
    /\ FavFrame

\* else: insert {userId, resortId}, then {favorited: true}
FavInsert(r) ==
    /\ FavAt(r, "selected")
    /\ favReq[r].existingFavorite = <<>>
    /\ favorites = {}
    /\ favorites' = {favNextId}
    /\ favNextId' = favNextId + 1
    /\ favReq' = [favReq EXCEPT ![r] =
                    [@ EXCEPT !.pc = "done",
                              !.resp = <<[status |-> 200, favorited |-> TRUE]>>]]
    /\ FavFrame

\* the insert meets a row stored since the select: unique_user_resort is
\* violated, the insert throws and the catch answers 500
FavInsertConflict(r) ==
    /\ FavAt(r, "selected")
    /\ favReq[r].existingFavorite = <<>>
    /\ favorites # {}
    /\ favReq' = [favReq EXCEPT ![r] =
                    [@ EXCEPT !.pc = "done", !.resp = <<[status |-> 500]>>]]
    /\ UNCHANGED <<favorites, favNextId>>
    /\ FavFrame

Toggles == 1..MaxToggles

FavNext ==
    \/ \E r \in Toggles : FavSelect(r)
    \/ \E r \in Toggles : FavDelete(r)
    \/ \E r \in Toggles : FavInsert(r)
    \/ \E r \in Toggles : FavInsertConflict(r)

SpecFav == FavInit /\ [][FavNext]_vars

FavAllDone == \A r \in 1..Len(favReq) : favReq[r].pc = "done"

\* favorited after n toggles applied one after another
AfterToggles(initial, n) == IF n % 2 = 0 THEN initial ELSE ~initial

\* the unique constraint holds whatever the interleaving
FavAtMostOneRow == Cardinality(favorites) <= 1

\* C29: under any interleaving of toggle requests of one user for one resort
\* at most one favorite row exists, every request succeeds, and the final
\* state is that of the toggles applied one after another.
FavTogglesSerialize ==
    /\ FavAtMostOneRow
    /\ \A r \in 1..Len(favReq) :
          favReq[r].pc = "done" => favReq[r].resp[1].status = 200
    /\ FavAllDone =>
          (favorites # {}) = AfterToggles(favReq[1].initial, Len(favReq))

\* two toggles of a resort that was not a favorite both read no row: one
\* inserts, the other gets 500, and the resort ends up a favorite
FavDoubleInsert ==
    /\ Len(favReq) = 2
    /\ FavAllDone
    /\ ~favReq[1].initial
    /\ {favReq[1].resp[1].status, favReq[2].resp[1].status} = {200, 500}
    /\ favorites # {}

\* two toggles of a favorite both read the row and both delete: both answer
\* 200 and the favorite is gone
FavDoubleDelete ==
    /\ Len(favReq) = 2
    /\ FavAllDone
    /\ favReq[1].initial
    /\ favReq[1].resp[1] = [status |-> 200, favorited |-> FALSE]
    /\ favReq[2].resp[1] = [status |-> 200, favorited |-> FALSE]
    /\ favorites = {}

----------------------------------------------------------------------------
(* Termination of the sequential run                                         *)

\* the scraper is invoked for the resort of the loop index only, which has
\* not been processed before, and a resort once processed is never pending
\* again
SeqScrapesOnce ==
    /\ (seqPc # "scraping" /\ seqPc' = "scraping") =>
          /\ seqI \in Resorts
          /\ rstate[seqI] = "Pending"
          /\ rstate'[seqI] = "Scraping"
    /\ \A r \in Resorts : rstate[r] # "Pending" => rstate'[r] # "Pending"
    /\ seqI' >= seqI

\* C30: a sequential run over a finite catalog always terminates and returns
\* its summary, having invoked the scraper at most once per resort, provided
\* every scraper call and every store write eventually returns or throws.
SeqTerminates ==
    /\ <>(seqPc = "done" /\
          results.success + results.failed + results.skipped = Len(catalog))
    /\ [][SeqScrapesOnce]_vars

\* C30 witness: a run over a full catalog returned after a stored, a failed
\* and a skipped resort
SeqTerminatesWitness ==
    /\ seqPc = "done"
    /\ Len(catalog) = MaxResorts
    /\ results.success >= 1
    /\ results.failed >= 1
    /\ results.skipped >= 1

====
